---- MODULE Spec2Model ----
(***************************************************************************)
(* A model of the VCP (Volatility Contraction Pattern) detection engine:   *)
(*   core/analysis/indicators/vcp.py            evaluate_vcp and helpers   *)
(*   core/analysis/indicators/vcp_plus.py       evaluate_vcp_plus, helpers *)
(*   core/strategy/indicator/pattern/vcp_indicator.py       VCPIndicator   *)
(*   core/strategy/indicator/pattern/vcp_plus_indicator.py  VCPPlusIndicator*)
(*                                                                         *)
(* Conventions.  A numpy array / pandas Series is a TLA+ sequence; the     *)
(* Python index i is position i+1 of the sequence (see At).  Index lists   *)
(* returned by the helpers hold Python (0-based) indices, as in the code.  *)
(* Prices and volumes are integers.                                        *)
(*                                                                         *)
(* The specifications of the module share its variables:                   *)
(*   SpecPure   the pure helpers applied to inputs drawn from bounded sets *)
(*   SpecVCP    the per-bar signal machine of VCPIndicator                 *)
(*   SpecPlus   the per-bar signal machine of VCPPlusIndicator             *)
(*   Spec       either indicator                                           *)
(*   SpecEval   the evaluators applied to bounded frames                   *)
(***************************************************************************)
EXTENDS Integers, Sequences, FiniteSets, TLC

VARIABLES
    task,       \* which function the inputs were drawn for
    fn_in,      \* the function's arguments
    fn_out,     \* the function's return value, NoValue before the call
    fn_pc,      \* "call" before the function ran, "done" after
    kind,       \* the indicator class, "VCP" or "VCPPlus"
    p,          \* the indicator's params (self.p)
    bars,       \* self.data, the bars delivered so far
    vcp_bought, \* self._vcp_bought
    lines,      \* the output lines of the current bar
    last_record,\* kind of the newest entry of signal_record_manager
    score       \* the pattern criteria of the current bar (PatternScore)

pure_vars == <<task, fn_in, fn_out, fn_pc>>

signal_vars == <<kind, p, bars, vcp_bought, lines, last_record, score>>

vars == <<pure_vars, signal_vars>>

\* self.data.close of the bars delivered so far
closes == [n \in 1..Len(bars) |-> bars[n].close]

(***************************************************************************)
(* Bounds of the model.                                                    *)
(***************************************************************************)
MaxArrLen == 5      \* longest array handed to local_extrema
MaxArrVal == 3      \* array values are 1..MaxArrVal
MaxOrder == 2       \* half-window orders 0..MaxOrder
MaxIdx == 4         \* raw extrema indices are 0..MaxIdx
MaxBars == 7        \* bars delivered to a VCPIndicator
MaxPlusBars == 10   \* bars delivered to a VCPPlusIndicator
Closes == {1, 2}      \* the closes a bar may carry

NoValue == [kind |-> "none"]

\* the score of a bar on which no criteria were evaluated
NoScore == <<>>

(***************************************************************************)
(* Sequence helpers (numpy slicing and reductions).                        *)
(***************************************************************************)
At(arr, i) == arr[i + 1]

Max2(a, b) == IF a >= b THEN a ELSE b

Min2(a, b) == IF a <= b THEN a ELSE b

\* arr[lo:hi] for 0 <= lo <= hi <= len(arr)
Slice(arr, lo, hi) == [n \in 1..(hi - lo) |-> arr[lo + n]]

RECURSIVE SeqMax(_)
SeqMax(s) == IF Len(s) = 1 THEN s[1] ELSE Max2(s[1], SeqMax(Tail(s)))

RECURSIVE SeqMin(_)
SeqMin(s) == IF Len(s) = 1 THEN s[1] ELSE Min2(s[1], SeqMin(Tail(s)))

\* s[::-1]
Reverse(s) == [n \in 1..Len(s) |-> s[Len(s) + 1 - n]]

\* list.pop(-1) on a non-empty list
PopLast(s) == SubSeq(s, 1, Len(s) - 1)

\* the ascending sequence of a finite set of integers
RECURSIVE SortedSeq(_)
SortedSeq(S) ==
    IF S = {} THEN <<>>
    ELSE LET m == CHOOSE x \in S : \A y \in S : x <= y
         IN <<m>> \o SortedSeq(S \ {m})

Range(s) == {s[n] : n \in 1..Len(s)}

(***************************************************************************)
(* _local_extrema (vcp.py 43-54, vcp_plus.py 75-87).  On NaN-free input    *)
(* window.max() and np.nanmax(window) agree, so one operator models both.  *)
(***************************************************************************)
\* a plausible slip: strict extremum against the neighbours only
extrema_hit_strict(arr, order, mode, i) ==
    LET window == Slice(arr, i - order, i + order + 1)
        center == At(arr, i)
    IN \/ mode = "max" /\ center = SeqMax(window)
           /\ \A n \in 1..Len(window) : n # order + 1 => window[n] < center
       \/ mode = "min" /\ center = SeqMin(window)
           /\ \A n \in 1..Len(window) : n # order + 1 => window[n] > center

\* the test of one loop iteration: does index i qualify
extrema_hit(arr, order, mode, i) ==
    LET window == Slice(arr, i - order, i + order + 1)
        center == At(arr, i)
    IN \/ mode = "max" /\ center = SeqMax(window)
       \/ mode = "min" /\ center = SeqMin(window)

\* for i in range(i, len(arr) - order)
RECURSIVE local_extrema_loop(_, _, _, _)
local_extrema_loop(arr, order, mode, i) ==
    IF i >= Len(arr) - order THEN <<>>
    ELSE (IF extrema_hit(arr, order, mode, i) THEN <<i>> ELSE <<>>)
         \o local_extrema_loop(arr, order, mode, i + 1)

local_extrema(arr, order, mode) ==
    IF Len(arr) < order * 2 + 1 THEN <<>>
    ELSE local_extrema_loop(arr, order, mode, order)

(***************************************************************************)
(* _adjust_local_high_low (vcp_plus.py 90-132): a two-cursor walk over the *)
(* raw local highs and lows.  The walk state is [i, j, high, low]: the two *)
(* cursors and the lists adjusted_high / adjusted_low built so far.        *)
(***************************************************************************)
\* while i < len(local_high) and local_high[i] < local_low[j]: i += 1
RECURSIVE adjust_skip_high(_, _, _, _)
adjust_skip_high(local_high, local_low, i, j) ==
    IF i < Len(local_high) /\ At(local_high, i) < At(local_low, j)
    THEN adjust_skip_high(local_high, local_low, i + 1, j)
    ELSE i

\* while j < len(local_low) and local_high[i] > local_low[j]: j += 1
RECURSIVE adjust_skip_low(_, _, _, _)
adjust_skip_low(local_high, local_low, i, j) ==
    IF j < Len(local_low) /\ At(local_high, i) > At(local_low, j)
    THEN adjust_skip_low(local_high, local_low, i, j + 1)
    ELSE j

\* the main while loop (lines 99-112)
RECURSIVE adjust_main_loop(_, _, _)
adjust_main_loop(local_high, local_low, s) ==
    IF ~(s.i < Len(local_high) /\ s.j < Len(local_low)) THEN s
    ELSE IF At(local_high, s.i) < At(local_low, s.j) THEN
        LET i2 == adjust_skip_high(local_high, local_low, s.i, s.j)
        IN adjust_main_loop(local_high, local_low,
              [s EXCEPT !.i = i2,
                        !.high = IF i2 > 0 THEN Append(@, At(local_high, i2 - 1)) ELSE @])
    ELSE IF At(local_high, s.i) > At(local_low, s.j) THEN
        LET j2 == adjust_skip_low(local_high, local_low, s.i, s.j)
        IN adjust_main_loop(local_high, local_low,
              [s EXCEPT !.j = j2,
                        !.low = IF j2 > 0 THEN Append(@, At(local_low, j2 - 1)) ELSE @])
    ELSE adjust_main_loop(local_high, local_low,
              [s EXCEPT !.i = @ + 1, !.j = @ + 1])

\* while i < len(local_high) and local_high[i] > local_low[j - 1]: i += 1
RECURSIVE adjust_tail_skip_high(_, _, _, _)
adjust_tail_skip_high(local_high, local_low, i, j) ==
    IF i < Len(local_high) /\ At(local_high, i) > At(local_low, j - 1)
    THEN adjust_tail_skip_high(local_high, local_low, i + 1, j)
    ELSE i

\* while j < len(local_low) and local_high[i - 1] > local_low[j]: j += 1
RECURSIVE adjust_tail_skip_low(_, _, _, _)
adjust_tail_skip_low(local_high, local_low, i, j) ==
    IF j < Len(local_low) /\ At(local_high, i - 1) > At(local_low, j)
    THEN adjust_tail_skip_low(local_high, local_low, i, j + 1)
    ELSE j

\* the block for leftover highs (lines 114-121)
adjust_high_tail(local_high, local_low, s) ==
    IF s.i < Len(local_high) /\ s.high # <<>> /\ s.j > 0 THEN
        LET i2 == adjust_tail_skip_high(local_high, local_low, s.i, s.j)
            h1 == PopLast(s.high)
            h2 == IF i2 > 0 THEN Append(h1, At(local_high, i2 - 1)) ELSE h1
        IN [s EXCEPT !.i = i2,
                     !.high = Append(h2, At(local_high, Len(local_high) - 1)),
                     !.low = Append(@, At(local_low, s.j - 1))]
    ELSE s

\* the block for leftover lows (lines 123-130)
adjust_low_tail(local_high, local_low, s) ==
    IF s.j < Len(local_low) /\ s.low # <<>> /\ s.i > 0 THEN
        LET j2 == adjust_tail_skip_low(local_high, local_low, s.i, s.j)
            l1 == PopLast(s.low)
            l2 == IF j2 > 0 THEN Append(l1, At(local_low, j2 - 1)) ELSE l1
        IN [s EXCEPT !.j = j2,
                     !.low = Append(l2, At(local_low, Len(local_low) - 1)),
                     !.high = Append(@, At(local_high, s.i - 1))]
    ELSE s

\* returns [high |-> adjusted_high, low |-> adjusted_low]
adjust_local_high_low(local_high, local_low) ==
    IF Len(local_high) = 0 \/ Len(local_low) = 0
    THEN [high |-> <<>>, low |-> <<>>]
    ELSE LET s0 == [i |-> 0, j |-> 0, high |-> <<>>, low |-> <<>>]
             s1 == adjust_main_loop(local_high, local_low, s0)
             s2 == adjust_high_tail(local_high, local_low, s1)
             s3 == adjust_low_tail(local_high, local_low, s2)
         IN [high |-> s3.high, low |-> s3.low]

(***************************************************************************)
(* SpecPure: each helper applied once to arguments drawn from bounded sets.*)
(***************************************************************************)
\* all sequences over S of length 0..n
SeqsUpTo(S, n) == UNION {[1..m -> S] : m \in 0..n}

\* all ascending index lists over 0..MaxIdx
IndexLists == {SortedSeq(S) : S \in SUBSET (0..MaxIdx)}

Modes == {"max", "min"}

InitExtrema ==
    /\ task = "local_extrema"
    /\ fn_in \in [arr : SeqsUpTo(1..MaxArrVal, MaxArrLen),
                  order : 0..MaxOrder,
                  mode : Modes]

InitAdjust ==
    /\ task = "adjust_local_high_low"
    /\ fn_in \in [local_high : IndexLists, local_low : IndexLists]

InitPure ==
    /\ InitExtrema \/ InitAdjust
    /\ fn_out = NoValue
    /\ fn_pc = "call"
    /\ kind = "idle"
    /\ p = NoValue
    /\ bars = <<>>
    /\ vcp_bought = FALSE
    /\ lines = NoValue
    /\ last_record = "none"
    /\ score = NoScore

CallLocalExtrema ==
    /\ task = "local_extrema"
    /\ fn_pc = "call"
    /\ fn_out' = [kind |-> "indices",
                  idx |-> local_extrema(fn_in.arr, fn_in.order, fn_in.mode)]
    /\ fn_pc' = "done"
    /\ UNCHANGED <<task, fn_in, signal_vars>>

CallAdjust ==
    /\ task = "adjust_local_high_low"
    /\ fn_pc = "call"
    /\ fn_out' = [kind |-> "adjusted"]
                  @@ adjust_local_high_low(fn_in.local_high, fn_in.local_low)
    /\ fn_pc' = "done"
    /\ UNCHANGED <<task, fn_in, signal_vars>>

NextPure ==
    \/ CallLocalExtrema
    \/ CallAdjust

SpecPure == InitPure /\ [][NextPure]_vars

(***************************************************************************)
(* Claims about the pure helpers (SpecPure).                               *)
(***************************************************************************)
ExtremaDone == task = "local_extrema" /\ fn_pc = "done"

AdjustDone == task = "adjust_local_high_low" /\ fn_pc = "done"

\* the indices the Extrema Locator is specified to return
SpecifiedExtrema(arr, k, mode) ==
    {i \in 0..(Len(arr) - 1) :
        /\ k <= i
        /\ i < Len(arr) - k
        /\ \A m \in (i - k)..(i + k) :
              IF mode = "max" THEN At(arr, m) <= At(arr, i)
                              ELSE At(arr, m) >= At(arr, i)}

\* strictly rising up to index k, strictly falling after it, length 2k+1
IsTent(arr, k) ==
    /\ Len(arr) = 2 * k + 1
    /\ \A n \in 1..(Len(arr) - 1) :
          IF n <= k THEN arr[n] < arr[n + 1] ELSE arr[n] > arr[n + 1]

\* C9: local_extrema returns, ascending, exactly the indices i with
\* k <= i < len-k whose value is the maximum (mode max) or minimum (mode min)
\* of the closed window [i-k, i+k]; nothing when len < 2k+1; and on a tent of
\* length 2k+1 the single peak index k.
C9_LocalExtremaExact ==
    ExtremaDone =>
        /\ fn_out.idx = SortedSeq(SpecifiedExtrema(fn_in.arr, fn_in.order, fn_in.mode))
        /\ Len(fn_in.arr) < 2 * fn_in.order + 1 => fn_out.idx = <<>>
        /\ IsTent(fn_in.arr, fn_in.order) /\ fn_in.mode = "max"
              => fn_out.idx = <<fn_in.order>>

\* a tent of length 5 searched with k = 2 gave the peak index 2
C9_Witness ==
    /\ ExtremaDone
    /\ fn_in.order = 2
    /\ fn_in.mode = "max"
    /\ IsTent(fn_in.arr, 2)
    /\ fn_out.idx = <<2>>

StrictlyAscending(s) == \A n \in 1..(Len(s) - 1) : s[n] < s[n + 1]

\* merged by index, the two lists never put two extrema of one type next to
\* each other and never repeat an index
StrictlyAlternates(high, low) ==
    /\ StrictlyAscending(high)
    /\ StrictlyAscending(low)
    /\ Range(high) \cap Range(low) = {}
    /\ \A a, b \in Range(high) :
          a < b => \E c \in Range(low) : a < c /\ c < b
    /\ \A a, b \in Range(low) :
          a < b => \E c \in Range(high) : a < c /\ c < b

\* C10: the lists returned by adjust_local_high_low strictly alternate by
\* type: merged by index they give a strictly increasing index sequence in
\* which no two neighbours have the same type (a run of same-type raw
\* extrema being represented by one member, its latest).
C10_AdjustAlternates ==
    AdjustDone => StrictlyAlternates(fn_out.high, fn_out.low)

(***************************************************************************)
(* Numbers.  A float is [k, n, d]: k = "num" for the rational n/d (d > 0), *)
(* "nan" for NaN, "ninf" / "pinf" for the infinities, "none" for Python's  *)
(* None.  Every comparison with NaN is false, as in IEEE 754.              *)
(***************************************************************************)
Num(n) == [k |-> "num", n |-> n, d |-> 1]

Frac(n, d) == [k |-> "num", n |-> n, d |-> d]

NaN == [k |-> "nan", n |-> 0, d |-> 1]

None == [k |-> "none", n |-> 0, d |-> 1]

NegInf == [k |-> "ninf", n |-> 0, d |-> 1]

PosInf == [k |-> "pinf", n |-> 0, d |-> 1]

IsNum(x) == x.k = "num"

\* neither NaN nor None: a float that takes part in the ordering
Ordered(x) == x.k \in {"num", "ninf", "pinf"}

\* a plausible slip: the comparison is not strict
Lt_or_equal(a, b) ==
    /\ Ordered(a) /\ Ordered(b)
    /\ \/ a.k = "ninf"
       \/ b.k = "pinf"
       \/ a.k = "num" /\ b.k = "num" /\ a.n * b.d <= b.n * a.d

Lt(a, b) ==
    /\ Ordered(a) /\ Ordered(b)
    /\ \/ a.k = "ninf" /\ b.k # "ninf"
       \/ a.k = "num" /\ b.k = "pinf"
       \/ a.k = "num" /\ b.k = "num" /\ a.n * b.d < b.n * a.d

Eq(a, b) ==
    /\ Ordered(a) /\ Ordered(b)
    /\ a.k = b.k
    /\ a.k = "num" => a.n * b.d = b.n * a.d

\* a plausible slip: a missing value passes every upper limit
Le_or_missing(a, b) == ~Ordered(a) \/ Lt(a, b) \/ Eq(a, b)

Le(a, b) == Lt(a, b) \/ Eq(a, b)

Gt(a, b) == Lt(b, a)

Ge(a, b) == Le(b, a)

RECURSIVE SeqSum(_)
SeqSum(s) == IF s = <<>> THEN 0 ELSE s[1] + SeqSum(Tail(s))

(***************************************************************************)
(* bt.indicators.EMA(self.data.close, period): the first value, at bar     *)
(* `period`, is the simple mean of the first `period` closes; afterwards   *)
(* ema = prev * (1 - alpha) + close * alpha with alpha = 2 / (period + 1). *)
(* EmaDen and EmaNum give the exact value EmaNum / EmaDen at bar n         *)
(* (1-based bar count, n >= period).                                       *)
(***************************************************************************)
RECURSIVE EmaDen(_, _)
EmaDen(n, period) ==
    IF n <= period THEN period ELSE (period + 1) * EmaDen(n - 1, period)

RECURSIVE EmaNum(_, _, _)
EmaNum(cl, n, period) ==
    IF n <= period THEN SeqSum(SubSeq(cl, 1, period))
    ELSE 2 * cl[n] * EmaDen(n - 1, period) + (period - 1) * EmaNum(cl, n - 1, period)

\* self.ema_sell[0] when len(self) = n; NaN before the EMA has a value
ema_sell(cl, n, period) ==
    IF n < period THEN NaN ELSE Frac(EmaNum(cl, n, period), EmaDen(n, period))

\* prev_close >= prev_ema and curr_close < curr_ema, on the newest bar of cl
\* (vcp_indicator.py 246-257, vcp_plus_indicator.py 166-170)
ema_cross_down(cl, period) ==
    LET n == Len(cl)
    IN /\ Ge(Num(cl[n - 1]), ema_sell(cl, n - 1, period))
       /\ Lt(Num(cl[n]), ema_sell(cl, n, period))

(***************************************************************************)
(* Indicator configurations.  The periods are scaled down so that the      *)
(* history a configuration needs fits the bounded bar stream; every value  *)
(* is one the params tuple of the indicator accepts.  progress_threshold   *)
(* is held in hundredths (100 is 1.0, 34 is the loose 0.34).               *)
(***************************************************************************)
BaseConfig ==
    [ma_200_period |-> 2, ma_trend_period |-> 1, local_extrema_order |-> 1,
     min_contractions |-> 2, max_contractions |-> 4,
     max_contraction_depth |-> 50, min_contraction_depth |-> 15,
     min_weeks |-> 2, lookback_period |-> 6, vol_long_period |-> 3,
     progress_threshold |-> 100, ema_sell_period |-> 2]

IndicatorConfigs ==
    { BaseConfig,
      [BaseConfig EXCEPT !.progress_threshold = 34],
      [BaseConfig EXCEPT !.progress_threshold = 34, !.vol_long_period = 5],
      [BaseConfig EXCEPT !.lookback_period = 2, !.vol_long_period = 5] }

\* self._min_len of VCPIndicator.__init__ (vcp_indicator.py 56-60)
vcp_min_len(q) ==
    Max2(Max2(q.ma_200_period + q.ma_trend_period, q.local_extrema_order * 2 + 1),
         q.ema_sell_period)

\* self._min_len of VCPPlusIndicator.__init__ (vcp_plus_indicator.py 64-69)
vcp_plus_min_len(q) ==
    Max2(Max2(Max2(q.ma_200_period + q.ma_trend_period, q.local_extrema_order * 2 + 1),
              q.ema_sell_period),
         q.vol_long_period)

Mul(a, b) ==
    IF IsNum(a) /\ IsNum(b) THEN Frac(a.n * b.n, a.d * b.d) ELSE NaN

NotNone(x) == x.k # "none"

(***************************************************************************)
(* compute_vcp_features(df, params), called by VCPIndicator.next at line   *)
(* 144.  The function is imported from core.analysis.indicators.vcp but    *)
(* its body is not part of the sources at hand; only the keys the caller   *)
(* reads are known (lines 152-158, 185-190).  It is modelled from the      *)
(* design's description of the sub-components: a feature whose rolling     *)
(* window does not fit the frame is missing (None), anything else is a     *)
(* value the frame can produce.  `c` picks the shape of the frame.         *)
(***************************************************************************)
FeatureChoices ==
    [trend : {"up", "flat"},
     contraction : {"none", "tight", "deep"},
     volume : {"dry", "heavy"}]

compute_vcp_features(w, close, q, c) ==
    LET has_ma == w >= q.ma_200_period
        has_slope == w >= q.ma_200_period + q.ma_trend_period
        has_vol == w >= q.vol_long_period
        has_extrema == w >= q.local_extrema_order * 2 + 1
        found == has_extrema /\ c.contraction # "none"
    IN [close_last |-> Num(close),
        ma_50 |-> Frac(4 * close - 1, 4),
        ma_150 |-> Frac(4 * close - 2, 4),
        ma_200 |-> IF has_ma THEN Frac(4 * close - 3, 4) ELSE None,
        ma_200_slope |-> IF ~has_slope THEN None
                         ELSE IF c.trend = "up" THEN Frac(1, 4) ELSE Num(0),
        week_52_low |-> Frac(close, 2),
        week_52_high |-> Num(close),
        num_contractions |-> IF found THEN 2 ELSE 0,
        max_contraction |-> IF ~found THEN None
                            ELSE IF c.contraction = "tight" THEN Num(30) ELSE Num(60),
        min_contraction |-> IF ~found THEN None
                            ELSE IF c.contraction = "tight" THEN Num(10) ELSE Num(20),
        weeks_of_contraction |-> IF found THEN Num(3) ELSE Num(0),
        vol_ma_short |-> Num(2),
        vol_ma_long |-> IF ~has_vol THEN None
                        ELSE IF c.volume = "dry" THEN Num(3) ELSE Num(2)]

(***************************************************************************)
(* VCPIndicator.next (vcp_indicator.py 92-276).                            *)
(***************************************************************************)
\* the lines as reset at the top of next (lines 95-100); the contraction
\* statistics lines carry no more than the count here
ResetLines ==
    [stage2_pass |-> 0, vcp_signal |-> NaN, vcp_sell_signal |-> NaN,
     num_contractions |-> 0]

\* lines 160-175
vcp_stage2_pass(f) ==
    /\ NotNone(f.close_last)
    /\ NotNone(f.ma_50)
    /\ NotNone(f.ma_150)
    /\ NotNone(f.ma_200)
    /\ NotNone(f.week_52_low)
    /\ NotNone(f.week_52_high)
    /\ Gt(f.close_last, f.ma_150)
    /\ Gt(f.close_last, f.ma_200)
    /\ Gt(f.close_last, f.ma_50)
    /\ Gt(f.ma_50, f.ma_150) /\ Gt(f.ma_150, f.ma_200)
    /\ NotNone(f.ma_200_slope)
    /\ Gt(f.ma_200_slope, Num(0))
    /\ Gt(f.close_last, Mul(f.week_52_low, Frac(13, 10)))
    /\ Gt(f.close_last, Mul(f.week_52_high, Frac(3, 4)))

\* the conditions dict of lines 192-209, in its order
vcp_conditions(f, q) ==
    << vcp_stage2_pass(f),
       q.min_contractions <= f.num_contractions
           /\ f.num_contractions <= q.max_contractions,
       NotNone(f.max_contraction) /\ Le(f.max_contraction, Num(q.max_contraction_depth)),
       NotNone(f.min_contraction) /\ Le(f.min_contraction, Num(q.min_contraction_depth)),
       Ge(f.weeks_of_contraction, Num(q.min_weeks)),
       NotNone(f.vol_ma_short) /\ NotNone(f.vol_ma_long)
           /\ Lt(f.vol_ma_short, f.vol_ma_long) >>

\* sum(1.0 for ok in conditions.values() if ok)
TrueCount(conds) == Cardinality({n \in 1..Len(conds) : conds[n]})

\* all(conditions.values())
AllTrue(conds) == \A n \in 1..Len(conds) : conds[n]

\* a plausible slip: the progress threshold is never consulted
vcp_passes_always(conds, q) == TRUE

\* lines 215-221 fall through to the buy block: progress >= threshold, and
\* every condition when the threshold is 1.0 or more
vcp_passes_threshold(conds, q) ==
    /\ ~(TrueCount(conds) * 100 < q.progress_threshold * Len(conds))
    /\ ~(~AllTrue(conds) /\ q.progress_threshold >= 100)

\* The sell block (lines 244-269, vcp_plus_indicator.py 165-177), reached
\* only after the buy block of the same call.  st is the indicator after the
\* buy block: [bought, lines, record, score].
sell_block(st, cl, q, sell_kind) ==
    IF st.bought /\ Len(cl) > q.ema_sell_period /\ ema_cross_down(cl, q.ema_sell_period)
    THEN [st EXCEPT !.bought = FALSE,
                    !.lines.vcp_sell_signal = Num(cl[Len(cl)]),
                    !.record = sell_kind]
    ELSE st

\* the whole of VCPIndicator.next on the bar stream cl (newest bar last);
\* c picks the frame shape seen by compute_vcp_features
VCPIndicator_next(bought, record, cl, q, c) ==
    LET n == Len(cl)
        lookback == Min2(n, q.lookback_period)
        f == compute_vcp_features(lookback, cl[n], q, c)
        conds == vcp_conditions(f, q)
        quiet == [bought |-> bought, lines |-> ResetLines, record |-> record,
                  score |-> conds]
    IN IF n < vcp_min_len(q) THEN [quiet EXCEPT !.score = NoScore]
       ELSE IF ~vcp_stage2_pass(f) THEN quiet
       ELSE IF ~vcp_passes_threshold(conds, q)
            THEN [quiet EXCEPT !.lines.stage2_pass = 1]
       ELSE sell_block(
                [bought |-> TRUE,
                 lines |-> [ResetLines EXCEPT !.stage2_pass = 1,
                                              !.vcp_signal = Num(cl[n]),
                                              !.num_contractions = f.num_contractions],
                 record |-> "vcp_buy",
                 score |-> conds],
                cl, q, "vcp_sell")

\* a plausible slip: the moving-average term is forgotten
min_rows_short(q) ==
    q.local_extrema_order * 2 + 1

\* max(params.ma_200_period + params.ma_trend_period, order * 2 + 1)
min_rows(q) ==
    Max2(q.ma_200_period + q.ma_trend_period, q.local_extrema_order * 2 + 1)

(***************************************************************************)
(* pandas / numpy helpers used by the evaluators.  A DataFrame is          *)
(* [rows |-> number of rows, cols |-> function from column name to the     *)
(* column's values]; a Series is a sequence.                               *)
(***************************************************************************)
Sub(a, b) ==
    IF IsNum(a) /\ IsNum(b) THEN Frac(a.n * b.d - b.n * a.d, a.d * b.d) ELSE NaN

Add(a, b) ==
    IF IsNum(a) /\ IsNum(b) THEN Frac(a.n * b.d + b.n * a.d, a.d * b.d) ELSE NaN

\* series.tail(m), 0 <= m <= len(series)
TailN(s, m) == SubSeq(s, Len(s) - m + 1, Len(s))

\* series.rolling(window=w, min_periods=w).mean() at the 0-based position i
rolling_mean(s, w, i) ==
    IF i + 1 < w THEN NaN ELSE Frac(SeqSum(Slice(s, i + 1 - w, i + 1)), w)

\* series.rolling(window=w, min_periods=w).min() at the 0-based position i
rolling_min(s, w, i) ==
    IF i + 1 < w THEN NaN ELSE Num(SeqMin(Slice(s, i + 1 - w, i + 1)))

\* series.rolling(window=w, min_periods=w).max() at the 0-based position i
rolling_max(s, w, i) ==
    IF i + 1 < w THEN NaN ELSE Num(SeqMax(Slice(s, i + 1 - w, i + 1)))

\* round(n / d) to the nearest integer, ties to even, for d > 0
RoundHalfEven(n, d) ==
    LET q == n \div d
        r == n % d
    IN IF 2 * r > d \/ (2 * r = d /\ q % 2 = 1) THEN q + 1 ELSE q

\* str.lower / str.upper / str.capitalize on the four required names
LowerOf == [close |-> "close", high |-> "high", low |-> "low", volume |-> "volume"]

UpperOf == [close |-> "CLOSE", high |-> "HIGH", low |-> "LOW", volume |-> "VOLUME"]

CapitalizeOf == [close |-> "Close", high |-> "High", low |-> "Low", volume |-> "Volume"]

KeyError == [kind |-> "KeyError"]

IndexError == [kind |-> "IndexError"]

\* some column of the frame, all zeros when the frame has none
resolve_optional_column_first(df) ==
    [kind |-> "series",
     data |-> IF DOMAIN df.cols = {} THEN [n \in 1..df.rows |-> 0]
              ELSE df.cols[CHOOSE c \in DOMAIN df.cols : TRUE]]

\* the candidate spellings in the order _resolve_column tries them
column_candidates(name) ==
    <<name, LowerOf[name], UpperOf[name], CapitalizeOf[name]>>

\* a plausible slip: a column that is not found falls back to some column
\* of the frame instead of raising
resolve_column_lenient(df, name) ==
    LET cands == column_candidates(name)
        hits == {n \in 1..Len(cands) : cands[n] \in DOMAIN df.cols}
    IN IF hits = {} THEN resolve_optional_column_first(df)
       ELSE [kind |-> "series",
             data |-> df.cols[cands[CHOOSE n \in hits : \A m \in hits : n <= m]]]

\* _resolve_column (vcp.py 36-40, vcp_plus.py 45-49): the first candidate
\* spelling that is a column, else KeyError
resolve_column(df, name) ==
    LET cands == column_candidates(name)
        hits == {n \in 1..Len(cands) : cands[n] \in DOMAIN df.cols}
    IN IF hits = {} THEN KeyError
       ELSE [kind |-> "series",
             data |-> df.cols[cands[CHOOSE n \in hits : \A m \in hits : n <= m]]]

\* _resolve_optional_column (vcp_plus.py 52-56)
resolve_optional_column(df, candidates) ==
    LET hits == {n \in 1..Len(candidates) : candidates[n] \in DOMAIN df.cols}
    IN IF hits = {} THEN None
       ELSE [kind |-> "series",
             data |-> df.cols[candidates[CHOOSE n \in hits : \A m \in hits : n <= m]]]

(***************************************************************************)
(* _contractions (vcp.py 57-72, vcp_plus.py 135-156) and _num_contractions *)
(* (vcp.py 75-84, vcp_plus.py 159-168).  A depth is a float in percent;    *)
(* round(x, 2) keeps hundredths.  Prices are non-negative.                 *)
(***************************************************************************)
\* round((high_val - low_val) / high_val * 100, 2) in numpy float arithmetic
depth_pct(high_val, low_val) ==
    IF high_val = 0
    THEN (IF low_val = 0 THEN NaN ELSE NegInf)
    ELSE Frac(RoundHalfEven(10000 * (high_val - low_val), high_val), 100)

\* a plausible slip: the else branch advances the low cursor
RECURSIVE contraction_walk_low_advance(_, _, _, _, _, _, _)
contraction_walk_low_advance(highs, lows, high_idx, low_idx, i, j, skip_zero) ==
    IF ~(i < Len(low_idx) /\ j < Len(high_idx)) THEN <<>>
    ELSE IF At(low_idx, i) > At(high_idx, j) THEN
        LET high_val == At(highs, At(high_idx, j))
            low_val == At(lows, At(low_idx, i))
        IN (IF skip_zero /\ high_val = 0 THEN <<>>
            ELSE <<depth_pct(high_val, low_val)>>)
           \o contraction_walk_low_advance(highs, lows, high_idx, low_idx,
                                           i + 1, j + 1, skip_zero)
    ELSE contraction_walk_low_advance(highs, lows, high_idx, low_idx, i + 1, j, skip_zero)

\* the while loop over the reversed index lists; skip_zero is the
\* `if high_val != 0` guard that only vcp_plus.py has
RECURSIVE contraction_walk(_, _, _, _, _, _, _)
contraction_walk(highs, lows, high_idx, low_idx, i, j, skip_zero) ==
    IF ~(i < Len(low_idx) /\ j < Len(high_idx)) THEN <<>>
    ELSE IF At(low_idx, i) > At(high_idx, j) THEN
        LET high_val == At(highs, At(high_idx, j))
            low_val == At(lows, At(low_idx, i))
        IN (IF skip_zero /\ high_val = 0 THEN <<>>
            ELSE <<depth_pct(high_val, low_val)>>)
           \o contraction_walk(highs, lows, high_idx, low_idx, i + 1, j + 1, skip_zero)
    ELSE contraction_walk(highs, lows, high_idx, low_idx, i, j + 1, skip_zero)

\* vcp.py
contractions(highs, lows, local_high, local_low) ==
    contraction_walk(highs, lows, Reverse(local_high), Reverse(local_low), 0, 0, FALSE)

\* vcp_plus.py
plus_contractions(highs, lows, local_high, local_low) ==
    contraction_walk(highs, lows, Reverse(local_high), Reverse(local_low), 0, 0, TRUE)

\* a plausible slip: every depth is counted, increasing or not
num_contractions_all(contraction) ==
    Len(contraction)

\* the for loop of _num_contractions from position n (1-based) on
RECURSIVE num_contractions_loop(_, _, _)
num_contractions_loop(contraction, n, new_c) ==
    IF n > Len(contraction) THEN 0
    ELSE IF Gt(contraction[n], new_c)
         THEN 1 + num_contractions_loop(contraction, n + 1, contraction[n])
         ELSE 0

num_contractions(contraction) == num_contractions_loop(contraction, 1, Num(0))

(***************************************************************************)
(* evaluate_vcp (vcp.py 87-252).  Parameters are a record with the fields  *)
(* of VCPParams; a result is [kind |-> "ok", ...] with the keys of the     *)
(* returned dict, or the exception that leaves the function; the local     *)
(* dict `conditions` is kept in the result next to the returned keys.      *)
(***************************************************************************)
\* the window of the two rolling 52-week extremes (vcp.py 140, 143: 252),
\* scaled with the moving-average periods of the configurations below
WEEK_52_WINDOW == 6

\* a plausible slip: the stage-2 criterion is left out of the denominator
progress_of_short(conds) == Frac(TrueCount(conds), Len(conds) - 1)

\* sum(1.0 for ok in conditions.values() if ok) / len(conditions)
progress_of(conds) == Frac(TrueCount(conds), Len(conds))

\* lines 121-243 on the resolved columns of a frame with enough rows
vcp_analysis(close, high, low, volume, q) ==
    LET lookback == Min2(Len(close), q.lookback_period)
        close_tail == TailN(close, lookback)
        high_tail == TailN(high, lookback)
        low_tail == TailN(low, lookback)
        volume_tail == TailN(volume, lookback)
        last == lookback - 1
        back == IF q.ma_trend_period = 0 THEN 0 ELSE lookback - q.ma_trend_period
        close_last == Num(close_tail[lookback])
        ma_50 == rolling_mean(close_tail, q.ma_50_period, last)
        ma_150 == rolling_mean(close_tail, q.ma_150_period, last)
        ma_200 == rolling_mean(close_tail, q.ma_200_period, last)
        week_52_low == rolling_min(low_tail, WEEK_52_WINDOW, last)
        week_52_high == rolling_max(high_tail, WEEK_52_WINDOW, last)
        ma_200_slope == Sub(ma_200, rolling_mean(close_tail, q.ma_200_period, back))
        stage2 == /\ Gt(close_last, ma_50)
                  /\ Gt(close_last, ma_150)
                  /\ Gt(close_last, ma_200)
                  /\ Gt(ma_50, ma_150) /\ Gt(ma_150, ma_200)
                  /\ Gt(ma_200_slope, Num(0))
                  /\ Gt(close_last, Mul(week_52_low, Frac(13, 10)))
                  /\ Gt(close_last, Mul(week_52_high, Frac(3, 4)))
        local_high == local_extrema(high_tail, q.local_extrema_order, "max")
        local_low == local_extrema(low_tail, q.local_extrema_order, "min")
        contraction == IF Len(local_high) >= 2 /\ Len(local_low) >= 2
                       THEN contractions(high_tail, low_tail, local_high, local_low)
                       ELSE <<>>
        num_c == IF contraction # <<>> THEN num_contractions(contraction) ELSE 0
        max_c == IF num_c >= 1 THEN contraction[num_c] ELSE Num(0)
        min_c == IF num_c >= 1 THEN contraction[1] ELSE Num(0)
        contraction_count_ok == q.min_contractions <= num_c /\ num_c <= q.max_contractions
        max_depth_ok == Le(max_c, Num(q.max_contraction_depth))
        min_depth_ok == Le(min_c, Num(q.min_contraction_depth))
        weeks_ok == /\ contraction # <<>> /\ num_c >= 1 /\ Len(local_high) >= num_c
                    /\ Ge(Frac(lookback - Reverse(local_high)[num_c], 5), Num(q.min_weeks))
        volume_dry_ok == Lt(rolling_mean(volume_tail, q.vol_short_period, last),
                            rolling_mean(volume_tail, q.vol_long_period, last))
        conditions == <<stage2, contraction_count_ok, max_depth_ok, min_depth_ok,
                        weeks_ok, volume_dry_ok>>
    IN [kind |-> "ok",
        stage2_pass |-> stage2,
        conditions |-> conditions,
        is_vcp |-> AllTrue(conditions),
        progress |-> progress_of(conditions),
        num_contractions |-> num_c,
        max_contraction |-> max_c,
        min_contraction |-> min_c]

\* the dict returned at lines 110-117 (no conditions are computed)
vcp_no_pattern ==
    [kind |-> "ok", conditions |-> <<>>,
     stage2_pass |-> FALSE, is_vcp |-> FALSE, progress |-> Num(0),
     num_contractions |-> 0, max_contraction |-> Num(0), min_contraction |-> Num(0)]

evaluate_vcp(df, q) ==
    LET close == resolve_column(df, "close")
        high == resolve_column(df, "high")
        low == resolve_column(df, "low")
        volume == resolve_column(df, "volume")
        lookback == Min2(df.rows, q.lookback_period)
    IN IF KeyError \in {close, high, low, volume} THEN KeyError
       ELSE IF df.rows < min_rows(q) THEN vcp_no_pattern
       ELSE IF lookback = 0 \/ q.ma_trend_period > lookback THEN IndexError
       ELSE vcp_analysis(close.data, high.data, low.data, volume.data, q)

(***************************************************************************)
(* evaluate_vcp_plus (vcp_plus.py 171-314).  Parameters are a record with  *)
(* the fields of VCPPlusParams.  The optional rs_rating column holds       *)
(* floats (Num or NaN); every other column holds integers.                 *)
(***************************************************************************)
RECURSIVE FracSum(_)
FracSum(s) == IF s = <<>> THEN Num(0) ELSE Add(s[1], FracSum(Tail(s)))

\* _trend_value (vcp_plus.py 59-72): the least-squares slope of values
\* against 1..len(values); 0.0 when the denominator vanishes
trend_value(values) ==
    LET n == Len(values)
        summed_x == (n * (n + 1)) \div 2
        summed_x2 == (n * (n + 1) * (2 * n + 1)) \div 6
        summed_y == FracSum(values)
        summed_xy == FracSum([i \in 1..n |-> Mul(Num(i), values[i])])
        numerator == Sub(Mul(Num(n), summed_xy), Mul(Num(summed_x), summed_y))
        denominator == n * summed_x2 - summed_x * summed_x
    IN IF n = 0 \/ denominator = 0 THEN Num(0)
       ELSE Mul(numerator, Frac(1, denominator))

\* series.rolling(window=w, min_periods=w).apply(_trend_value, raw=True)
\* at the last position of a series of floats
rolling_trend_last(series, w) ==
    IF w > Len(series) THEN NaN
    ELSE LET window == TailN(series, w)
         IN IF \E n \in 1..w : ~IsNum(window[n]) THEN NaN ELSE trend_value(window)

\* the dict returned at lines 200-209
vcp_plus_no_pattern ==
    [kind |-> "ok", stage2_pass |-> FALSE, vcp_pass |-> FALSE, rs_pass |-> FALSE,
     num_contractions |-> 0, max_contraction |-> NaN, min_contraction |-> NaN,
     weeks_of_contraction |-> Num(0), rs_rating |-> None]

\* lines 211-314 on the tails of the resolved columns; benchmark_tail and
\* rs_rating_tail are None when the optional column is absent
vcp_plus_analysis(close_tail, high_tail, low_tail, volume_tail, benchmark_tail, rs_rating_tail, q) ==
    LET n == Len(close_tail)
        last == n - 1
        close_last == Num(close_tail[n])
        ma_50 == rolling_mean(close_tail, q.ma_50_period, last)
        ma_150 == rolling_mean(close_tail, q.ma_150_period, last)
        ma_200 == [i \in 1..n |-> rolling_mean(close_tail, q.ma_200_period, i - 1)]
        week_window == IF n >= q.week_window THEN q.week_window ELSE n
        week_low == rolling_min(low_tail, week_window, last)
        week_high == rolling_max(high_tail, week_window, last)
        ma_200_slope == rolling_trend_last(ma_200, q.ma_trend_period)
        condition_1 == /\ Gt(close_last, ma_150) /\ Gt(close_last, ma_200[n])
                       /\ Gt(close_last, ma_50)
        condition_2 == Gt(ma_150, ma_200[n]) /\ Gt(ma_50, ma_150)
        condition_3 == Gt(ma_200_slope, Num(0))
        condition_6 == Gt(Num(low_tail[n]), Mul(week_low, Frac(13, 10)))
        condition_7 == Gt(Num(high_tail[n]), Mul(week_high, Frac(3, 4)))
        rs_line == [i \in 1..n |-> IF benchmark_tail.data[i] = 0 THEN NaN
                                   ELSE Frac(close_tail[i], benchmark_tail.data[i])]
        condition_8 == IF ~q.require_rs_slope THEN TRUE
                       ELSE IF benchmark_tail = None THEN FALSE
                       ELSE Gt(rolling_trend_last(rs_line, q.rs_trend_period), Num(0))
        stage2_pass == /\ condition_1 /\ condition_2 /\ condition_3
                       /\ condition_6 /\ condition_7 /\ condition_8
        adjusted == adjust_local_high_low(
                        local_extrema(high_tail, q.local_extrema_order, "max"),
                        local_extrema(low_tail, q.local_extrema_order, "min"))
        local_high == adjusted.high
        local_low == adjusted.low
        contraction == IF Len(local_high) >= 2 /\ Len(local_low) >= 2
                       THEN plus_contractions(high_tail, low_tail, local_high, local_low)
                       ELSE <<>>
        num_c == IF contraction # <<>> THEN num_contractions(contraction) ELSE 0
        max_c == IF num_c >= 1 THEN contraction[num_c] ELSE NaN
        min_c == IF num_c >= 1 THEN contraction[1] ELSE NaN
        weeks_of_contraction ==
            IF contraction # <<>> /\ num_c >= 1 /\ Len(local_high) >= num_c
            THEN Frac(n - Reverse(local_high)[num_c], 5) ELSE Num(0)
        vol_contraction == Lt(rolling_mean(volume_tail, q.vol_short_period, last),
                              rolling_mean(volume_tail, q.vol_long_period, last))
        consolidation_ok ==
            IF ~q.require_consolidation THEN TRUE
            ELSE /\ Len(local_high) > 0
                 /\ high_tail[n] < At(high_tail, local_high[Len(local_high)])
        flag_num == q.min_contractions <= num_c /\ num_c <= q.max_contractions
        flag_max == Le(max_c, Num(q.max_contraction_depth))
        flag_min == Le(min_c, Num(q.min_contraction_depth))
        flag_week == Ge(weeks_of_contraction, Num(q.min_weeks))
        rs_rating_value == IF rs_rating_tail = None THEN None ELSE rs_rating_tail.data[n]
        rs_rating == IF IsNum(rs_rating_value) THEN rs_rating_value ELSE None
        rs_pass == IF ~q.require_rs_rating THEN TRUE
                   ELSE Ge(rs_rating, Num(q.min_rs_rating))
    IN [kind |-> "ok",
        stage2_pass |-> stage2_pass,
        vcp_pass |-> /\ flag_num /\ flag_max /\ flag_min /\ flag_week
                     /\ vol_contraction /\ consolidation_ok,
        rs_pass |-> rs_pass,
        num_contractions |-> num_c,
        max_contraction |-> max_c,
        min_contraction |-> min_c,
        weeks_of_contraction |-> weeks_of_contraction,
        rs_rating |-> rs_rating]

\* the tail(lookback) of an optional column
optional_tail(column, lookback) ==
    IF column = None THEN None
    ELSE [kind |-> "series", data |-> TailN(column.data, lookback)]

evaluate_vcp_plus(df, q) ==
    LET close == resolve_column(df, "close")
        high == resolve_column(df, "high")
        low == resolve_column(df, "low")
        volume == resolve_column(df, "volume")
        benchmark_close == resolve_optional_column(
            df, <<q.benchmark_close_column, "spx_close", "benchmark_close", "index_close">>)
        rs_rating_series == resolve_optional_column(
            df, <<q.rs_rating_column, "rs_rating", "rs_score">>)
        lookback == Min2(df.rows, q.lookback_period)
    IN IF KeyError \in {close, high, low, volume} THEN KeyError
       ELSE IF lookback < min_rows(q) THEN vcp_plus_no_pattern
       ELSE vcp_plus_analysis(TailN(close.data, lookback), TailN(high.data, lookback),
                              TailN(low.data, lookback), TailN(volume.data, lookback),
                              optional_tail(benchmark_close, lookback),
                              optional_tail(rs_rating_series, lookback), q)

(***************************************************************************)
(* VCPPlusIndicator.next (vcp_plus_indicator.py 93-177) on the bars bs     *)
(* delivered so far (newest last).  A bar is a record with the fields      *)
(* high, low, close, volume and, when the data feed has those lines,       *)
(* benchmark_close and rs_rating.                                          *)
(***************************************************************************)
Bar(h, l, c, v) == [high |-> h, low |-> l, close |-> c, volume |-> v]

\* _build_feature_frame (vcp_plus_indicator.py 75-91)
build_feature_frame(bs, lookback, q) ==
    LET safe_lookback == Min2(lookback, Len(bs))
        t == TailN(bs, safe_lookback)
        base == [high |-> [n \in 1..safe_lookback |-> t[n].high],
                 low |-> [n \in 1..safe_lookback |-> t[n].low],
                 close |-> [n \in 1..safe_lookback |-> t[n].close],
                 volume |-> [n \in 1..safe_lookback |-> t[n].volume]]
        with_benchmark ==
            IF "benchmark_close" \in DOMAIN bs[1]
            THEN (q.benchmark_close_column :>
                      [n \in 1..safe_lookback |-> t[n].benchmark_close]) @@ base
            ELSE base
        with_rating ==
            IF "rs_rating" \in DOMAIN bs[1]
            THEN (q.rs_rating_column :>
                      [n \in 1..safe_lookback |-> t[n].rs_rating]) @@ with_benchmark
            ELSE with_benchmark
    IN [rows |-> safe_lookback, cols |-> with_rating]

\* lines 94-101
PlusResetLines ==
    [stage2_pass |-> 0, vcp_signal |-> NaN, vcp_sell_signal |-> NaN,
     num_contractions |-> 0, max_contraction |-> NaN, min_contraction |-> NaN,
     weeks |-> Num(0), rs_rating |-> NaN]

\* lines 141-147: the output lines and the criteria of an evaluated bar
plus_shown(quiet, result) ==
    [quiet EXCEPT
        !.lines.stage2_pass = IF result.stage2_pass THEN 1 ELSE 0,
        !.lines.num_contractions = result.num_contractions,
        !.lines.max_contraction = result.max_contraction,
        !.lines.min_contraction = result.min_contraction,
        !.lines.weeks = result.weeks_of_contraction,
        !.lines.rs_rating = IF NotNone(result.rs_rating)
                            THEN result.rs_rating ELSE NaN,
        !.score = <<result.stage2_pass, result.vcp_pass, result.rs_pass>>]

\* lines 149-177: the two early returns, the buy block and the sell block
plus_decide(cl, q, result, shown) ==
    IF ~result.stage2_pass THEN shown
    ELSE IF ~(result.vcp_pass /\ result.rs_pass) THEN shown
    ELSE sell_block(
             [bought |-> TRUE,
              lines |-> [shown.lines EXCEPT !.vcp_signal = Num(cl[Len(cl)])],
              record |-> "vcp_plus_buy",
              score |-> shown.score],
             cl, q, "vcp_plus_sell")

\* lines 108-177 once the frame df is built
plus_evaluate_and_decide(cl, q, df, quiet, result) ==
    IF df.rows = 0 THEN quiet
    ELSE plus_decide(cl, q, result, plus_shown(quiet, result))

VCPPlusIndicator_next(bought, record, bs, q) ==
    LET n == Len(bs)
        df == build_feature_frame(bs, Min2(n, q.lookback_period), q)
        quiet == [bought |-> bought, lines |-> PlusResetLines, record |-> record,
                  score |-> NoScore]
    IN IF n < vcp_plus_min_len(q) THEN quiet
       ELSE plus_evaluate_and_decide([i \in 1..n |-> bs[i].close], q, df, quiet,
                                     evaluate_vcp_plus(df, q))

(***************************************************************************)
(* Configurations and bar streams of the VCPPlus indicator.  The periods   *)
(* are scaled down from the defaults (50/150/200, trend 20, order 10) so   *)
(* that every criterion is decided within MaxPlusBars bars.                *)
(***************************************************************************)
PlusConfig ==
    [ma_50_period |-> 3, ma_150_period |-> 4, ma_200_period |-> 5,
     ma_trend_period |-> 2, rs_trend_period |-> 2, week_window |-> 6,
     local_extrema_order |-> 1, min_contractions |-> 1, max_contractions |-> 4,
     max_contraction_depth |-> 50, min_contraction_depth |-> 40, min_weeks |-> 1,
     vol_short_period |-> 1, vol_long_period |-> 2, lookback_period |-> 8,
     require_rs_slope |-> FALSE, require_rs_rating |-> FALSE, min_rs_rating |-> 70,
     require_consolidation |-> TRUE,
     benchmark_close_column |-> "benchmark_close", rs_rating_column |-> "rs_rating",
     ema_sell_period |-> 2, progress_threshold |-> 100,
     feed_lines |-> {}]

\* feed_lines: the optional lines the data feed carries (hasattr(self.data, ...))
PlusIndicatorConfigs ==
    {PlusConfig,
     [PlusConfig EXCEPT !.lookback_period = 4],
     [PlusConfig EXCEPT !.vol_long_period = 9],
     [PlusConfig EXCEPT !.require_rs_slope = TRUE, !.require_rs_rating = TRUE,
                        !.feed_lines = {"benchmark_close", "rs_rating"}]}

\* two bar streams; the bar at position n is drawn from both
StreamA ==
    <<Bar(6, 3, 4, 2), Bar(6, 4, 4, 1), Bar(6, 3, 6, 1), Bar(11, 8, 8, 1),
      Bar(8, 7, 7, 2), Bar(10, 7, 10, 2), Bar(9, 9, 9, 1), Bar(8, 4, 6, 1),
      Bar(8, 4, 6, 1), Bar(8, 4, 6, 1)>>

StreamB ==
    <<Bar(6, 5, 5, 3), Bar(6, 3, 5, 3), Bar(8, 7, 7, 3), Bar(7, 4, 7, 3),
      Bar(12, 8, 8, 2), Bar(9, 8, 8, 3), Bar(10, 8, 9, 3), Bar(10, 10, 10, 2),
      Bar(11, 9, 10, 1), Bar(11, 9, 10, 2)>>

\* the benchmark closes and RS ratings a feed with those lines carries
\* next to the bars of StreamA and of StreamB
BenchmarkA == <<1, 1, 1, 1, 1, 1, 1, 1, 1, 1>>

BenchmarkB == <<1, 0, 1, 1, 1, 1, 2, 2, 1, 1>>

RatingA == [n \in 1..10 |-> Num(80)]

RatingB == [n \in 1..10 |-> IF n = 9 THEN NaN ELSE IF n = 10 THEN Num(60) ELSE Num(80)]

FeedBar(b, benchmark, rating, q) ==
    IF q.feed_lines = {} THEN b
    ELSE b @@ [benchmark_close |-> benchmark, rs_rating |-> rating]

\* the bars the feed may deliver at position n (streams repeat after their end)
BarMenu(n, q) ==
    LET m == ((n - 1) % Len(StreamA)) + 1
    IN {FeedBar(StreamA[m], BenchmarkA[m], RatingA[m], q),
        FeedBar(StreamB[m], BenchmarkB[m], RatingB[m], q)}

(***************************************************************************)
(* Spec: one indicator instance fed a bar stream, one call of next per bar.*)
(***************************************************************************)
IdlePure ==
    /\ task = "idle"
    /\ fn_in = NoValue
    /\ fn_out = NoValue
    /\ fn_pc = "idle"

\* the state after __init__ (vcp_indicator.py 54-66, vcp_plus_indicator.py 62-73)
InitSignal ==
    /\ \/ kind = "VCP" /\ p \in IndicatorConfigs
       \/ kind = "VCPPlus" /\ p \in PlusIndicatorConfigs
    /\ bars = <<>>
    /\ vcp_bought = FALSE
    /\ lines = IF kind = "VCP" THEN ResetLines ELSE PlusResetLines
    /\ last_record = "none"
    /\ score = NoScore

Init ==
    /\ InitSignal
    /\ IdlePure

VCPNext ==
    /\ kind = "VCP"
    /\ Len(bars) < MaxBars
    /\ \E close \in Closes, c \in FeatureChoices :
          \E st \in {VCPIndicator_next(vcp_bought, last_record, Append(closes, close), p, c)} :
             /\ bars' = Append(bars, Bar(close, close, close, 1))
             /\ vcp_bought' = st.bought
             /\ lines' = st.lines
             /\ last_record' = st.record
             /\ score' = st.score
    /\ UNCHANGED <<kind, p, pure_vars>>

VCPPlusNext ==
    /\ kind = "VCPPlus"
    /\ Len(bars) < MaxPlusBars
    /\ \E b \in BarMenu(Len(bars) + 1, p) :
          \E st \in {VCPPlusIndicator_next(vcp_bought, last_record, Append(bars, b), p)} :
             /\ bars' = Append(bars, b)
             /\ vcp_bought' = st.bought
             /\ lines' = st.lines
             /\ last_record' = st.record
             /\ score' = st.score
    /\ UNCHANGED <<kind, p, pure_vars>>

Next ==
    \/ VCPNext
    \/ VCPPlusNext

Spec == Init /\ [][Next]_vars

\* the VCPIndicator alone and the VCPPlusIndicator alone
InitVCP == Init /\ kind = "VCP"

SpecVCP == InitVCP /\ [][VCPNext]_vars

InitPlus == Init /\ kind = "VCPPlus"

SpecPlus == InitPlus /\ [][VCPPlusNext]_vars

(***************************************************************************)
(* SpecEval: evaluate_vcp and evaluate_vcp_plus applied once to a frame.   *)
(* The frames are the prefixes of the bar streams under lower-case column  *)
(* names, and one full frame under every spelling of its columns.          *)
(***************************************************************************)
MaxRows == 10       \* rows of a frame handed to an evaluator

EvalConfigs ==
    {PlusConfig,
     [PlusConfig EXCEPT !.lookback_period = 4],
     [PlusConfig EXCEPT !.lookback_period = 1]}

\* the bar streams of m rows: row n is drawn from BarMenu(n, PlusConfig)
RECURSIVE StreamsOfLen(_)
StreamsOfLen(m) ==
    IF m = 0 THEN {<<>>}
    ELSE {Append(s, b) : s \in StreamsOfLen(m - 1), b \in BarMenu(m, PlusConfig)}

\* how a required column is spelled in a frame
Spellings == {"absent", "exact", "upper", "capitalized", "other"}

\* the column name of a required field under a spelling
SpelledAs(name, spelling) ==
    CASE spelling = "exact" -> name
      [] spelling = "upper" -> UpperOf[name]
      [] spelling = "capitalized" -> CapitalizeOf[name]
      [] spelling = "other" -> UpperOf[name] \o "_px"

RequiredColumns == {"close", "high", "low", "volume"}

\* pd.DataFrame of the bars bs with each required field under its spelling
FrameOf(bs, spelled) ==
    LET present == {f \in RequiredColumns : spelled[f] # "absent"}
        names == {SpelledAs(f, spelled[f]) : f \in present}
        field(c) == CHOOSE f \in present : SpelledAs(f, spelled[f]) = c
    IN [rows |-> Len(bs),
        cols |-> [c \in names |-> [n \in 1..Len(bs) |-> bs[n][field(c)]]]]

AllExact == [f \in RequiredColumns |-> "exact"]

InitEval ==
    /\ task \in {"evaluate_vcp", "evaluate_vcp_plus"}
    /\ \/ \E m \in 0..MaxRows : \E bs \in StreamsOfLen(m) : \E q \in EvalConfigs :
             fn_in = [df |-> FrameOf(bs, AllExact), params |-> q]
       \/ \E spelled \in [RequiredColumns -> Spellings] :
             fn_in = [df |-> FrameOf(SubSeq(StreamB, 1, Min2(MaxRows, Len(StreamB)) - 1),
                                     spelled),
                      params |-> PlusConfig]
    /\ fn_out = NoValue
    /\ fn_pc = "call"
    /\ kind = "idle"
    /\ p = NoValue
    /\ bars = <<>>
    /\ vcp_bought = FALSE
    /\ lines = NoValue
    /\ last_record = "none"
    /\ score = NoScore

CallEvaluateVcp ==
    /\ task = "evaluate_vcp"
    /\ fn_pc = "call"
    /\ fn_out' = evaluate_vcp(fn_in.df, fn_in.params)
    /\ fn_pc' = "done"
    /\ UNCHANGED <<task, fn_in, signal_vars>>

CallEvaluateVcpPlus ==
    /\ task = "evaluate_vcp_plus"
    /\ fn_pc = "call"
    /\ fn_out' = evaluate_vcp_plus(fn_in.df, fn_in.params)
    /\ fn_pc' = "done"
    /\ UNCHANGED <<task, fn_in, signal_vars>>

NextEval ==
    \/ CallEvaluateVcp
    \/ CallEvaluateVcpPlus

SpecEval == InitEval /\ [][NextEval]_vars

(***************************************************************************)
(* SpecCriteria: the evaluators applied once to frames whose latest bar,   *)
(* volume column and optional columns vary: CriteriaRows bars of the bar   *)
(* streams followed by one latest bar.                                     *)
(***************************************************************************)
CriteriaRows == 8   \* bars of a frame before its latest bar

LastBars == {Bar(12, 9, 10, 1), Bar(11, 9, 10, 1), Bar(11, 9, 10, 2), Bar(9, 8, 8, 1)}

LastBenchmarks == {0, 1, 2}

LastRatings == {NaN, Num(60), Num(70)}

RsConfig ==
    [PlusConfig EXCEPT !.require_rs_slope = TRUE, !.require_rs_rating = TRUE,
                       !.feed_lines = {"benchmark_close", "rs_rating"}]

\* the checks off; a window too short to analyse; the checks on with and
\* without the optional lines in the feed; the lines fed but not required
CriteriaConfigs ==
    {PlusConfig,
     [PlusConfig EXCEPT !.lookback_period = 4],
     RsConfig,
     [RsConfig EXCEPT !.feed_lines = {}],
     [PlusConfig EXCEPT !.feed_lines = {"benchmark_close", "rs_rating"}]}

\* configurations that ask for no contraction at all, and for no duration
LooseConfigs ==
    {[PlusConfig EXCEPT !.min_contractions = 0],
     [PlusConfig EXCEPT !.min_contractions = 0, !.min_weeks = 0]}

\* the bar streams of m bars a feed with the lines of q may deliver
RECURSIVE FeedStreams(_, _)
FeedStreams(m, q) ==
    IF m = 0 THEN {<<>>}
    ELSE {Append(s, b) : s \in FeedStreams(m - 1, q), b \in BarMenu(m, q)}

\* the same bars traded at a constant volume
ConstantVolume(bs) == [n \in 1..Len(bs) |-> [bs[n] EXCEPT !.volume = 1]]

CriteriaStreams(q) ==
    LET varied == {Append(s, FeedBar(b, benchmark, rating, q)) :
                      s \in FeedStreams(CriteriaRows, q),
                      b \in LastBars,
                      benchmark \in LastBenchmarks,
                      rating \in LastRatings}
    IN varied \cup {ConstantVolume(bs) : bs \in varied}

InitCriteria ==
    /\ \/ task = "evaluate_vcp" /\ fn_in \in [df : {build_feature_frame(bs, Len(bs), PlusConfig) :
                                                       bs \in CriteriaStreams(PlusConfig)},
                                              params : {PlusConfig} \cup LooseConfigs]
       \/ /\ task = "evaluate_vcp_plus"
          /\ \E q \in CriteriaConfigs \cup LooseConfigs : \E bs \in CriteriaStreams(q) :
                fn_in = [df |-> build_feature_frame(bs, Len(bs), q), params |-> q]
    /\ fn_out = NoValue
    /\ fn_pc = "call"
    /\ kind = "idle"
    /\ p = NoValue
    /\ bars = <<>>
    /\ vcp_bought = FALSE
    /\ lines = NoValue
    /\ last_record = "none"
    /\ score = NoScore

SpecCriteria == InitCriteria /\ [][NextEval]_vars

(***************************************************************************)
(* Claims about the signal machine (Spec).                                 *)
(***************************************************************************)
NewBar == closes' # closes

BuyEmitted == IsNum(lines.vcp_signal)

SellEmitted == IsNum(lines.vcp_sell_signal)

LastWasBuy == last_record \in {"vcp_buy", "vcp_plus_buy"}

CurrentClose == Num(closes[Len(closes)])

\* the history every sub-component needs: slow MA period + trend length,
\* 2k+1 bars for the extrema, the EMA sell period, the long volume-MA period
FullMinHistory(q) ==
    Max2(Max2(Max2(q.ma_200_period + q.ma_trend_period, q.local_extrema_order * 2 + 1),
              q.ema_sell_period),
         q.vol_long_period)

\* the downside cross of the trailing EMA on the newest bar
DownsideCross ==
    /\ Len(closes) > p.ema_sell_period
    /\ ema_cross_down(closes, p.ema_sell_period)

\* C1: once a bar has emitted a Buy, no later bar emits another Buy until a
\* Sell has been emitted: a bar that starts with a Buy as the newest event
\* emits no Buy.
C1_NoBuyUntilSell ==
    [][NewBar /\ LastWasBuy => ~BuyEmitted']_vars

\* C2: while Holding, a bar with previous close >= previous EMA and current
\* close < current EMA emits a Sell at the current close and returns the
\* state to Armed, whatever the criteria of that bar are.
C2_SellOnCrossWhileHolding ==
    [][NewBar /\ vcp_bought /\ DownsideCross'
          => lines'.vcp_sell_signal = CurrentClose' /\ ~vcp_bought']_vars

\* C3: on every bar with sufficient history, if the state is Armed and
\* progress (true criteria / criteria) >= progress_threshold, VCPIndicator
\* emits a Buy at the current close and the state becomes Holding.
C3_BuyWhenArmedAndProgress ==
    [][NewBar /\ kind = "VCP" /\ ~vcp_bought
          /\ Len(closes') >= FullMinHistory(p)
          /\ score' # NoScore
          /\ TrueCount(score') * 100 >= p.progress_threshold * Len(score')
          => lines'.vcp_signal = CurrentClose' /\ vcp_bought']_vars

\* C4: a Sell is emitted only on a bar that starts Holding; the state
\* changes only on a Buy (Armed to Holding) or a Sell (Holding to Armed);
\* so the events alternate Buy, Sell, Buy, ... starting with a Buy.
C4_EventsAlternate ==
    [][NewBar =>
          /\ SellEmitted' => vcp_bought
          /\ BuyEmitted' => ~vcp_bought
          /\ vcp_bought' # vcp_bought => BuyEmitted' \/ SellEmitted']_vars

\* C5: no Buy and no Sell is emitted, and the state stays Armed, on every bar
\* delivered before the minimum history of all sub-components is available.
C5_NoSignalBeforeMinHistory ==
    Len(closes) < FullMinHistory(p)
        => ~BuyEmitted /\ ~SellEmitted /\ ~vcp_bought

\* the frame VCPPlusIndicator.next builds on the newest bar
CurrentFrame == build_feature_frame(bars, Min2(Len(bars), p.lookback_period), p)

\* fewer rows than max(slow MA period + trend length, 2k+1)
ShortWindow(rows, q) ==
    rows < Max2(q.ma_200_period + q.ma_trend_period, 2 * q.local_extrema_order + 1)

\* a returned result without a pattern: no stage 2, zero contractions
NoPattern(r) == r.kind = "ok" /\ ~r.stage2_pass /\ r.num_contractions = 0

\* C6: on a frame with fewer rows than max(slow MA period + trend length,
\* 2k+1) evaluate_vcp and evaluate_vcp_plus return a no-pattern result
\* (stage2_pass false, verdict false, zero contractions) and raise nothing;
\* the bar leaves the signal state as it was and emits nothing; and a bar
\* whose frame is long enough is scored by the evaluation of its own frame.
C6_ShortWindowNoPattern ==
    [][NewBar =>
          \A rp \in {evaluate_vcp_plus(CurrentFrame', p)} :
             /\ ShortWindow(CurrentFrame'.rows, p) =>
                   /\ NoPattern(evaluate_vcp(CurrentFrame', p))
                   /\ ~evaluate_vcp(CurrentFrame', p).is_vcp
                   /\ NoPattern(rp) /\ ~rp.vcp_pass
                   /\ vcp_bought' = vcp_bought
                   /\ ~BuyEmitted' /\ ~SellEmitted'
             /\ ~ShortWindow(CurrentFrame'.rows, p) /\ Len(bars') >= vcp_plus_min_len(p) =>
                   score' = <<rp.stage2_pass, rp.vcp_pass, rp.rs_pass>>]_vars

\* the indicator has run the evaluator on a frame that is too short
C6_Witness ==
    /\ kind = "VCPPlus"
    /\ Len(bars) >= vcp_plus_min_len(p)
    /\ ShortWindow(CurrentFrame.rows, p)
    /\ score = <<FALSE, FALSE, FALSE>>

(***************************************************************************)
(* Claims about the evaluators (SpecEval).                                 *)
(***************************************************************************)
EvalDone == task \in {"evaluate_vcp", "evaluate_vcp_plus"} /\ fn_pc = "done"

\* a required field is in the frame under none of its four spellings
MissingColumn(df) ==
    \E f \in RequiredColumns :
        {f, LowerOf[f], UpperOf[f], CapitalizeOf[f]} \cap DOMAIN df.cols = {}

\* C7: if one of close, high, low, volume is absent from the frame under
\* the exact, lower-case, upper-case and capitalised spelling, evaluate_vcp
\* and evaluate_vcp_plus end with the missing-column error and return no
\* result.
C7_MissingColumnRaises ==
    EvalDone /\ MissingColumn(fn_in.df) => fn_out = KeyError

C7_Witness ==
    /\ EvalDone
    /\ MissingColumn(fn_in.df)
    /\ DOMAIN fn_in.df.cols # {}
    /\ fn_out = KeyError

\* C8: for every window evaluate_vcp evaluates, progress is the number of
\* true criteria divided by the number of criteria, lies in [0, 1], and
\* is_vcp is true only if progress is 1.0.
C8_ProgressIsShareOfCriteria ==
    EvalDone /\ task = "evaluate_vcp" /\ fn_out.kind = "ok" =>
        /\ fn_out.conditions # <<>> =>
              Eq(fn_out.progress,
                 Frac(Cardinality({n \in 1..Len(fn_out.conditions) : fn_out.conditions[n]}),
                      Len(fn_out.conditions)))
        /\ Le(Num(0), fn_out.progress) /\ Le(fn_out.progress, Num(1))
        /\ fn_out.is_vcp => Eq(fn_out.progress, Num(1))

C8_Witness ==
    /\ EvalDone /\ task = "evaluate_vcp" /\ fn_out.kind = "ok"
    /\ fn_out.is_vcp
    /\ Eq(fn_out.progress, Num(1))

(***************************************************************************)
(* SpecWalk: _contractions (both modules) and _num_contractions applied    *)
(* once to arguments drawn from bounded sets.                              *)
(***************************************************************************)
MaxDepths == 3      \* longest depth list handed to _num_contractions

\* price arrays of MaxIdx + 1 bars
WalkHighs ==
    {[n \in 1..(MaxIdx + 1) |-> 3],
     [n \in 1..(MaxIdx + 1) |-> 2 + (n % 2)],
     [n \in 1..(MaxIdx + 1) |-> 1 + (n % 3)]}

WalkLows ==
    {[n \in 1..(MaxIdx + 1) |-> 1],
     [n \in 1..(MaxIdx + 1) |-> 1 + (n % 2)]}

\* the depths a list may hold: a negative one (low above the high), zero,
\* and the pullbacks 12, 25, 40
DepthValues == {Frac(-5, 1), Num(0), Num(12), Num(25), Num(40)}

DepthLists == SeqsUpTo(DepthValues, MaxDepths) \ {<<>>}

\* evaluate_vcp hands the raw extrema to _contractions (vcp.py 185)
InitContractions ==
    /\ task = "contractions"
    /\ fn_in \in [highs : WalkHighs, lows : WalkLows,
                  local_high : IndexLists, local_low : IndexLists]

\* evaluate_vcp_plus hands over the adjusted extrema (vcp_plus.py 257-260)
InitPlusContractions ==
    /\ task = "plus_contractions"
    /\ \E highs \in WalkHighs, lows \in WalkLows, h \in IndexLists, l \in IndexLists :
          \E adjusted \in {adjust_local_high_low(h, l)} :
             \/ fn_in = [highs |-> highs, lows |-> lows,
                         local_high |-> h, local_low |-> l]
             \/ fn_in = [highs |-> highs, lows |-> lows,
                         local_high |-> adjusted.high, local_low |-> adjusted.low]

InitNumContractions ==
    /\ task = "num_contractions"
    /\ fn_in \in [contraction : DepthLists]

InitWalk ==
    /\ InitContractions \/ InitPlusContractions \/ InitNumContractions
    /\ fn_out = NoValue
    /\ fn_pc = "call"
    /\ kind = "idle"
    /\ p = NoValue
    /\ bars = <<>>
    /\ vcp_bought = FALSE
    /\ lines = NoValue
    /\ last_record = "none"
    /\ score = NoScore

CallContractions ==
    /\ task = "contractions"
    /\ fn_pc = "call"
    /\ fn_out' = [kind |-> "depths",
                  depths |-> contractions(fn_in.highs, fn_in.lows,
                                          fn_in.local_high, fn_in.local_low)]
    /\ fn_pc' = "done"
    /\ UNCHANGED <<task, fn_in, signal_vars>>

CallPlusContractions ==
    /\ task = "plus_contractions"
    /\ fn_pc = "call"
    /\ fn_out' = [kind |-> "depths",
                  depths |-> plus_contractions(fn_in.highs, fn_in.lows,
                                               fn_in.local_high, fn_in.local_low)]
    /\ fn_pc' = "done"
    /\ UNCHANGED <<task, fn_in, signal_vars>>

CallNumContractions ==
    /\ task = "num_contractions"
    /\ fn_pc = "call"
    /\ fn_out' = [kind |-> "count", num |-> num_contractions(fn_in.contraction)]
    /\ fn_pc' = "done"
    /\ UNCHANGED <<task, fn_in, signal_vars>>

NextWalk ==
    \/ CallContractions
    \/ CallPlusContractions
    \/ CallNumContractions

SpecWalk == InitWalk /\ [][NextWalk]_vars

(***************************************************************************)
(* Claims about the contraction walk and the run length (SpecWalk).        *)
(***************************************************************************)
\* the (high index, low index) pairs the two cursors of _contractions visit:
\* a pair is taken and both cursors advance when the low cursor's index is
\* later than the high cursor's, otherwise only the high cursor advances
RECURSIVE walk_pairs(_, _, _, _)
walk_pairs(high_idx, low_idx, i, j) ==
    IF ~(i < Len(low_idx) /\ j < Len(high_idx)) THEN <<>>
    ELSE IF At(low_idx, i) > At(high_idx, j)
         THEN <<[high |-> At(high_idx, j), low |-> At(low_idx, i)]>>
              \o walk_pairs(high_idx, low_idx, i + 1, j + 1)
         ELSE walk_pairs(high_idx, low_idx, i, j + 1)

\* the pairs of a call of _contractions
pairs_of(local_high, local_low) ==
    walk_pairs(Reverse(local_high), Reverse(local_low), 0, 0)

WalkDone == task \in {"contractions", "plus_contractions"} /\ fn_pc = "done"

IncreasingPrefixLen(c) ==
    CHOOSE n \in 1..Len(c) :
        /\ \A k \in 1..(n - 1) : Lt(c[k], c[k + 1])
        /\ n < Len(c) => ~Lt(c[n], c[n + 1])

\* C12: for every non-empty most-recent-first depth list, whatever the
\* sign or size of its first depth, _num_contractions returns the length of
\* the longest strictly increasing prefix, the first element counted; the
\* depths 12, 25, 40 give 3.
C12_RunIsIncreasingPrefix ==
    task = "num_contractions" /\ fn_pc = "done" =>
        /\ fn_out.num = IncreasingPrefixLen(fn_in.contraction)
        /\ fn_in.contraction = <<Num(12), Num(25), Num(40)>> => fn_out.num = 3

(***************************************************************************)
(* Claims about the criteria of the evaluators.                            *)
(***************************************************************************)
\* the window an evaluator analyses: the tails of the high and low columns
\* and the local extrema it hands to _contractions (vcp.py 121-185,
\* vcp_plus.py 192-263)
window_extrema(df, q, plus) ==
    LET lookback == Min2(df.rows, q.lookback_period)
        high_tail == TailN(resolve_column(df, "high").data, lookback)
        low_tail == TailN(resolve_column(df, "low").data, lookback)
        raw == [high |-> local_extrema(high_tail, q.local_extrema_order, "max"),
                low |-> local_extrema(low_tail, q.local_extrema_order, "min")]
        used == IF plus THEN adjust_local_high_low(raw.high, raw.low) ELSE raw
    IN [rows |-> lookback, high_tail |-> high_tail, low_tail |-> low_tail,
        local_high |-> used.high, local_low |-> used.low]

\* the most-recent-first depth list of a window
window_depths(w, plus) ==
    IF Len(w.local_high) >= 2 /\ Len(w.local_low) >= 2
    THEN IF plus THEN plus_contractions(w.high_tail, w.low_tail, w.local_high, w.local_low)
         ELSE contractions(w.high_tail, w.low_tail, w.local_high, w.local_low)
    ELSE <<>>

\* an evaluator returned the result of a full analysis with a valid run
RunFound ==
    /\ EvalDone
    /\ fn_out.kind = "ok"
    /\ fn_out.num_contractions >= 1

TrendInputMissing(rows, q, plus) ==
    \/ rows < q.ma_50_period
    \/ rows < q.ma_150_period
    \/ rows < q.ma_200_period
    \/ rows - q.ma_trend_period + 1 < q.ma_200_period
    \/ ~plus /\ rows < WEEK_52_WINDOW

\* C15: for every configuration and window, lookback_period below the slow
\* MA period or the trend length included, the trend classifier does not
\* raise, and it yields stage2_pass = false whenever one of its inputs is
\* unavailable.
C15_TrendFailsClosed ==
    EvalDone /\ ~MissingColumn(fn_in.df) =>
        /\ fn_out.kind = "ok"
        /\ TrendInputMissing(Min2(fn_in.df.rows, fn_in.params.lookback_period),
                             fn_in.params, task = "evaluate_vcp_plus")
              => ~fn_out.stage2_pass

\* (window_length - p) / 5 for the local high p that the walk paired with
\* the oldest contraction of the valid run of n depths
claimed_weeks(w, n) ==
    Frac(w.rows - pairs_of(w.local_high, w.local_low)[n].high, 5)

\* C19: the duration criterion measures (window_length - p) / 5 where p is
\* the index of the local high paired with the oldest contraction of the
\* valid run, also when the walk skipped local highs before pairing.
C19_DurationFromPairedHigh ==
    RunFound =>
        \A w \in {window_extrema(fn_in.df, fn_in.params, task = "evaluate_vcp_plus")} :
           /\ task = "evaluate_vcp_plus" =>
                 Eq(fn_out.weeks_of_contraction,
                    claimed_weeks(w, fn_out.num_contractions))
           /\ task = "evaluate_vcp" =>
                 fn_out.conditions[5] =
                     Ge(claimed_weeks(w, fn_out.num_contractions),
                        Num(fn_in.params.min_weeks))

\* the analysed window of a frame: its closes, lows and highs
trend_window(df, q) ==
    LET rows == Min2(df.rows, q.lookback_period)
    IN [rows |-> rows,
        close |-> TailN(resolve_column(df, "close").data, rows),
        low |-> TailN(resolve_column(df, "low").data, rows),
        high |-> TailN(resolve_column(df, "high").data, rows)]

\* the window of the 52-week range: 252 bars in evaluate_vcp, week_window
\* bars (the whole window when it is shorter) in evaluate_vcp_plus
week_range_bars(rows, q, plus) ==
    IF plus THEN Min2(q.week_window, rows) ELSE WEEK_52_WINDOW

\* C14: in both evaluators stage2_pass is true only if the latest close is
\* above 1.3 times the rolling 52-week low and above 0.75 times the rolling
\* 52-week high, above the three moving averages, and the averages are
\* stacked fast > medium > slow.
C14_Stage2NeedsWeekRange ==
    EvalDone /\ fn_out.kind = "ok" /\ fn_out.stage2_pass =>
        \A w \in {trend_window(fn_in.df, fn_in.params)} :
           LET q == fn_in.params
               last == w.rows - 1
               close_last == Num(w.close[w.rows])
               weeks == week_range_bars(w.rows, q, task = "evaluate_vcp_plus")
               ma_50 == rolling_mean(w.close, q.ma_50_period, last)
               ma_150 == rolling_mean(w.close, q.ma_150_period, last)
               ma_200 == rolling_mean(w.close, q.ma_200_period, last)
           IN /\ Gt(close_last, Mul(rolling_min(w.low, weeks, last), Frac(13, 10)))
              /\ Gt(close_last, Mul(rolling_max(w.high, weeks, last), Frac(3, 4)))
              /\ Gt(close_last, ma_50) /\ Gt(close_last, ma_150) /\ Gt(close_last, ma_200)
              /\ Gt(ma_50, ma_150) /\ Gt(ma_150, ma_200)

PlusDone == EvalDone /\ task = "evaluate_vcp_plus" /\ fn_out.kind = "ok"

\* the latest close is strictly below the high at the most recent local high
\* of the window; false when there is no local high
not_yet_broken_out(df, q) ==
    LET w == window_extrema(df, q, TRUE)
        rows == w.rows
    IN /\ w.local_high # <<>>
       /\ TailN(resolve_column(df, "close").data, rows)[rows]
             < At(w.high_tail, SeqMax(w.local_high))

\* C20: with require_consolidation enabled the not-yet-broken-out criterion
\* of evaluate_vcp_plus is true iff the latest close is strictly below the
\* high at the most recent qualifying local-high index, false without a
\* local high: vcp_pass is the verdict of the other pattern criteria (the
\* one returned with the criterion disabled) and that comparison.
C20_ConsolidationUsesClose ==
    PlusDone /\ fn_in.params.require_consolidation /\ fn_in.df.rows > 0 =>
        fn_out.vcp_pass =
            (/\ evaluate_vcp_plus(fn_in.df, [fn_in.params EXCEPT
                                                !.require_consolidation = FALSE]).vcp_pass
             /\ not_yet_broken_out(fn_in.df, fn_in.params))

\* the regression slope of close / benchmark_close over the last
\* rs_trend_period bars of the window, as the specification states the
\* relative-strength criterion; None when the frame has no benchmark column
rs_line_slope(df, q) ==
    LET rows == Min2(df.rows, q.lookback_period)
        close == TailN(resolve_column(df, "close").data, rows)
        benchmark == optional_tail(
            resolve_optional_column(
                df, <<q.benchmark_close_column, "spx_close", "benchmark_close", "index_close">>),
            rows)
    IN IF benchmark = None THEN None
       ELSE rolling_trend_last(
                [i \in 1..rows |-> IF benchmark.data[i] = 0 THEN NaN
                                   ELSE Frac(close[i], benchmark.data[i])],
                q.rs_trend_period)

\* true when the check is disabled; with the check enabled, true exactly
\* when a benchmark is supplied and the slope is non-negative
rs_slope_criterion(df, q) ==
    IF ~q.require_rs_slope THEN TRUE ELSE Ge(rs_line_slope(df, q), Num(0))

\* C16: in evaluate_vcp_plus the relative-strength criterion of stage2_pass
\* passes exactly when the slope of close / benchmark_close is non-negative
\* (a zero slope passes), fails when it is required and no benchmark is
\* supplied, and is true when it is disabled: stage2_pass is the stage2_pass
\* of the same frame with the check disabled, and the criterion.
C16_RsSlopeNonNegative ==
    PlusDone /\ fn_in.df.rows > 0 =>
        fn_out.stage2_pass =
            (/\ evaluate_vcp_plus(fn_in.df, [fn_in.params EXCEPT !.require_rs_slope = FALSE]).stage2_pass
             /\ rs_slope_criterion(fn_in.df, fn_in.params))

\* the rating at the latest bar of the frame: None when the frame has no
\* rating column, NaN when the latest rating is missing
latest_rating(df, q) ==
    LET rs_rating_series == resolve_optional_column(
                                df, <<q.rs_rating_column, "rs_rating", "rs_score">>)
    IN IF rs_rating_series = None THEN None ELSE rs_rating_series.data[df.rows]

\* C17: in evaluate_vcp_plus rs_pass is true when require_rs_rating is
\* disabled; when it is enabled rs_pass is true iff a rating is present at
\* the latest bar and is at least min_rs_rating (false when the column is
\* absent or the latest rating is missing).
C17_RsPassFollowsRating ==
    PlusDone /\ fn_in.df.rows > 0 =>
        fn_out.rs_pass =
            (IF ~fn_in.params.require_rs_rating THEN TRUE
             ELSE Ge(latest_rating(fn_in.df, fn_in.params), Num(fn_in.params.min_rs_rating)))

\* the sum of the volumes of the last period bars of the frame
volume_sum(df, period) == SeqSum(TailN(resolve_column(df, "volume").data, period))

\* the short-period volume average at the latest bar is strictly below the
\* long-period one (both periods fit in the window): the two sums compared
\* after cross-multiplying by the periods
volume_dries_up(df, q) ==
    LET rows == Min2(df.rows, q.lookback_period)
    IN /\ q.vol_short_period <= rows
       /\ q.vol_long_period <= rows
       /\ volume_sum(df, q.vol_short_period) * q.vol_long_period
              < volume_sum(df, q.vol_long_period) * q.vol_short_period

\* every bar of the evaluated window has the same volume
IsConstantVolume(df, q) ==
    LET rows == Min2(df.rows, q.lookback_period)
        volume_tail == TailN(resolve_column(df, "volume").data, rows)
    IN \A n \in 1..rows : volume_tail[n] = volume_tail[1]

\* the frame with its volume column replaced by one that dries up: 0 on the
\* last vol_short_period bars and 1 before
dried_volume(df, q) ==
    [df EXCEPT !.cols.volume =
        [n \in 1..df.rows |-> IF n > df.rows - q.vol_short_period THEN 0 ELSE 1]]

\* C18: the volume dry-up criterion is true iff the short-period volume
\* average at the latest bar is strictly below the long-period average.
\* evaluate_vcp reports the criterion as its sixth condition; in
\* evaluate_vcp_plus vcp_pass is the vcp_pass of the same frame with a
\* volume that dries up, and the criterion.  On a constant-volume window the
\* criterion is false.
C18_VolumeDryUpStrict ==
    EvalDone /\ fn_out.kind = "ok" /\ fn_in.df.rows > 0 =>
        /\ task = "evaluate_vcp" /\ fn_out.conditions # <<>> =>
               /\ fn_out.conditions[6] = volume_dries_up(fn_in.df, fn_in.params)
               /\ IsConstantVolume(fn_in.df, fn_in.params) => ~fn_out.conditions[6]
        /\ task = "evaluate_vcp_plus" =>
               /\ fn_out.vcp_pass =
                      (/\ evaluate_vcp_plus(dried_volume(fn_in.df, fn_in.params), fn_in.params).vcp_pass
                       /\ volume_dries_up(fn_in.df, fn_in.params))
               /\ IsConstantVolume(fn_in.df, fn_in.params) => ~fn_out.vcp_pass

\* a constant-volume frame that fails vcp_pass on the volume criterion alone
C18_Witness ==
    /\ PlusDone
    /\ IsConstantVolume(fn_in.df, fn_in.params)
    /\ ~fn_out.vcp_pass
    /\ evaluate_vcp_plus(dried_volume(fn_in.df, fn_in.params), fn_in.params).vcp_pass

(***************************************************************************)
(* Further claims about the pure helpers (SpecPure).                       *)
(***************************************************************************)
NoDuplicate(s) == \A m, n \in 1..Len(s) : m # n => s[m] # s[n]

\* C30: when the raw local highs and lows already strictly alternate in
\* time, adjust_local_high_low returns both lists unchanged; in general every
\* index it returns is a member of the corresponding raw list and neither
\* returned list holds an index twice.
C30_AdjustKeepsAlternatingLists ==
    AdjustDone =>
        /\ StrictlyAlternates(fn_in.local_high, fn_in.local_low) =>
               /\ fn_out.high = fn_in.local_high
               /\ fn_out.low = fn_in.local_low
        /\ Range(fn_out.high) \subseteq Range(fn_in.local_high)
        /\ Range(fn_out.low) \subseteq Range(fn_in.local_low)
        /\ NoDuplicate(fn_out.high)
        /\ NoDuplicate(fn_out.low)

(***************************************************************************)
(* SpecZeroWalk: _contractions of both modules on price arrays that hold   *)
(* a zero (a bar whose high is 0, e.g. a suspended or unfilled bar).       *)
(***************************************************************************)
ZeroHighs ==
    {[n \in 1..(MaxIdx + 1) |-> 2 * (n % 2)],
     [n \in 1..(MaxIdx + 1) |-> IF n = 2 THEN 0 ELSE 4]}

ZeroLows ==
    {[n \in 1..(MaxIdx + 1) |-> 0],
     [n \in 1..(MaxIdx + 1) |-> 1]}

InitZeroWalk ==
    /\ task \in {"contractions", "plus_contractions"}
    /\ fn_in \in [highs : ZeroHighs, lows : ZeroLows,
                  local_high : IndexLists, local_low : IndexLists]
    /\ fn_out = NoValue
    /\ fn_pc = "call"
    /\ kind = "idle"
    /\ p = NoValue
    /\ bars = <<>>
    /\ vcp_bought = FALSE
    /\ lines = NoValue
    /\ last_record = "none"
    /\ score = NoScore

NextZeroWalk ==
    \/ CallContractions
    \/ CallPlusContractions

SpecZeroWalk == InitZeroWalk /\ [][NextZeroWalk]_vars

\* the pairs of a walk whose high price is not 0, in the order of the walk
RECURSIVE priced_pairs(_, _)
priced_pairs(ps, highs) ==
    IF ps = <<>> THEN <<>>
    ELSE (IF At(highs, ps[1].high) = 0 THEN <<>> ELSE <<ps[1]>>)
         \o priced_pairs(Tail(ps), highs)

\* C22: in the contraction walk of both evaluators a matched pair whose
\* high price is 0 contributes no depth and the walk continues with the next
\* pair: the list holds exactly the depths of the pairs with a non-zero
\* high, and every depth in it is a finite number.
C22_ZeroHighPairSkipped ==
    WalkDone =>
        \A ps \in {priced_pairs(pairs_of(fn_in.local_high, fn_in.local_low), fn_in.highs)} :
           /\ Len(fn_out.depths) = Len(ps)
           /\ \A k \in 1..Len(fn_out.depths) : IsNum(fn_out.depths[k])
           /\ \A k \in 1..Len(ps) :
                 fn_out.depths[k] = depth_pct(At(fn_in.highs, ps[k].high),
                                              At(fn_in.lows, ps[k].low))

(***************************************************************************)
(* SpecTrend: the evaluators applied once to a frame of flat bars (high =  *)
(* low = close, volume 1) whose closes rise and fall freely, so that the   *)
(* slow moving average can turn within the trend length.                   *)
(***************************************************************************)
TrendRows == 7      \* rows of a frame of flat bars

TrendCloses == {4, 10, 40}

FlatFrame(cl) ==
    build_feature_frame([n \in 1..Len(cl) |-> Bar(cl[n], cl[n], cl[n], 1)], Len(cl), PlusConfig)

InitTrend ==
    /\ task \in {"evaluate_vcp", "evaluate_vcp_plus"}
    /\ \E cl \in [1..TrendRows -> TrendCloses] :
          fn_in = [df |-> FlatFrame(cl), params |-> PlusConfig]
    /\ fn_out = NoValue
    /\ fn_pc = "call"
    /\ kind = "idle"
    /\ p = NoValue
    /\ bars = <<>>
    /\ vcp_bought = FALSE
    /\ lines = NoValue
    /\ last_record = "none"
    /\ score = NoScore

SpecTrend == InitTrend /\ [][NextEval]_vars

(***************************************************************************)
(* SpecTwice: a caller that holds a window (a frame) and an Armed/Holding  *)
(* flag scores the window twice with the same parameters.  fn_in.df is the *)
(* caller's frame object, fn_in.passed the contents it had before the      *)
(* first call, fn_out the list of the results so far.                      *)
(***************************************************************************)
TwiceRows == 9      \* rows of the window that is scored twice

TwiceConfigs == {PlusConfig, [PlusConfig EXCEPT !.lookback_period = 4]}

\* a plausible slip: the window is cut to its last lookback rows in place
frame_cut_to_tail(df, q) ==
    [rows |-> Min2(df.rows, q.lookback_period),
     cols |-> [c \in DOMAIN df.cols |-> TailN(df.cols[c], Min2(df.rows, q.lookback_period))]]

\* the caller's frame after an evaluation.  Both evaluators only read df:
\* the columns are looked up, df.tail(lookback) is a new object (copied in
\* vcp_plus.py 196) and nothing is assigned to it.
frame_after(df, q) == df

InitTwice ==
    /\ task \in {"evaluate_vcp", "evaluate_vcp_plus"}
    /\ \E bs \in StreamsOfLen(TwiceRows), q \in TwiceConfigs :
          \E df \in {build_feature_frame(bs, Len(bs), q)} :
             fn_in = [df |-> df, params |-> q, passed |-> df]
    /\ fn_out = <<>>
    /\ fn_pc = "call"
    /\ kind = "idle"
    /\ p = NoValue
    /\ bars = <<>>
    /\ vcp_bought \in BOOLEAN
    /\ lines = NoValue
    /\ last_record = "none"
    /\ score = NoScore

\* one call of the evaluator on the caller's frame
ScoreWindow ==
    /\ fn_pc \in {"call", "again"}
    /\ fn_out' = Append(fn_out, IF task = "evaluate_vcp"
                                THEN evaluate_vcp(fn_in.df, fn_in.params)
                                ELSE evaluate_vcp_plus(fn_in.df, fn_in.params))
    /\ fn_in' = [fn_in EXCEPT !.df = frame_after(fn_in.df, fn_in.params)]
    /\ fn_pc' = IF fn_pc = "call" THEN "again" ELSE "done"
    /\ UNCHANGED <<task, signal_vars>>

SpecTwice == InitTwice /\ [][ScoreWindow]_vars

(***************************************************************************)
(* Further claims about the criteria of the evaluators.                    *)
(***************************************************************************)
\* the slow moving average at the latest bar minus the slow moving average
\* exactly ma_trend_period bars earlier (0-based index last - trend_length)
slow_ma_rise(close, q) ==
    LET last == Len(close) - 1
    IN Sub(rolling_mean(close, q.ma_200_period, last),
           rolling_mean(close, q.ma_200_period, last - q.ma_trend_period))

\* the Stage-2 criteria of evaluate_vcp other than criterion 3
stage2_but_slope(w, q) ==
    LET last == w.rows - 1
        close_last == Num(w.close[w.rows])
        ma_50 == rolling_mean(w.close, q.ma_50_period, last)
        ma_150 == rolling_mean(w.close, q.ma_150_period, last)
        ma_200 == rolling_mean(w.close, q.ma_200_period, last)
    IN /\ Gt(close_last, ma_50) /\ Gt(close_last, ma_150) /\ Gt(close_last, ma_200)
       /\ Gt(ma_50, ma_150) /\ Gt(ma_150, ma_200)
       /\ Gt(close_last, Mul(rolling_min(w.low, WEEK_52_WINDOW, last), Frac(13, 10)))
       /\ Gt(close_last, Mul(rolling_max(w.high, WEEK_52_WINDOW, last), Frac(3, 4)))

\* C26: in evaluate_vcp Stage-2 criterion 3 compares the slow moving
\* average at the latest bar with the slow moving average exactly
\* ma_trend_period bars earlier and passes iff the difference is strictly
\* positive: stage2_pass is the other Stage-2 criteria and that comparison.
C26_SlopeOverTrendLength ==
    EvalDone /\ task = "evaluate_vcp" /\ fn_out.kind = "ok" /\ fn_out.conditions # <<>> =>
        \A w \in {trend_window(fn_in.df, fn_in.params)} :
           fn_out.stage2_pass =
               (/\ stage2_but_slope(w, fn_in.params)
                /\ Gt(slow_ma_rise(w.close, fn_in.params), Num(0)))

\* the evaluator returned a positive pattern verdict
IsPattern ==
    /\ EvalDone
    /\ fn_out.kind = "ok"
    /\ IF task = "evaluate_vcp" THEN fn_out.is_vcp ELSE fn_out.vcp_pass

\* C29: for every configuration, min_contractions = 0 included, a positive
\* pattern verdict (is_vcp, vcp_pass) implies a valid run of at least one
\* contraction whose length is within [min_contractions, max_contractions],
\* min_contraction <= max_contraction <= max_contraction_depth and
\* min_contraction <= min_contraction_depth; a window with no valid
\* contraction is never a pattern.
C29_PatternHasValidRun ==
    IsPattern =>
        /\ fn_out.num_contractions >= 1
        /\ fn_in.params.min_contractions <= fn_out.num_contractions
        /\ fn_out.num_contractions <= fn_in.params.max_contractions
        /\ Le(fn_out.min_contraction, fn_out.max_contraction)
        /\ Le(fn_out.max_contraction, Num(fn_in.params.max_contraction_depth))
        /\ Le(fn_out.min_contraction, Num(fn_in.params.min_contraction_depth))
        /\ window_depths(window_extrema(fn_in.df, fn_in.params, task = "evaluate_vcp_plus"),
                         task = "evaluate_vcp_plus") # <<>>

\* a pattern found under a configuration that asks for no contraction
C29_Witness ==
    /\ IsPattern
    /\ fn_in.params.min_contractions = 0
    /\ fn_out.num_contractions >= 1

(***************************************************************************)
(* SpecPair: two VCPPlusIndicator instances, each attached to the data     *)
(* feed of its own symbol, with their calls of next interleaved in every   *)
(* order.  Here every signal variable holds one value per instance:        *)
(* bars[i] is the feed of instance i (its symbol and the bars delivered),  *)
(* vcp_bought[i], lines[i] and last_record[i] are its attributes, and      *)
(* score[i] is the log of what it emitted, one entry per bar.              *)
(***************************************************************************)
Instances == {1, 2}

Symbols == {"A", "B"}

\* bar n of the feed of a symbol
SymbolBar(symbol, n) ==
    LET m == ((n - 1) % Len(StreamA)) + 1
    IN IF symbol = "A" THEN StreamA[m] ELSE StreamB[m]

\* a plausible slip: the attribute is kept on the class, so every instance
\* reads the one of the first
own_shared(attribute, i) == attribute[1]

\* self.<attribute> of instance i
own(attribute, i) == attribute[i]

\* what a call of next left on the buy-signal and sell-signal lines
emitted(ls) == [buy |-> ls.vcp_signal, sell |-> ls.vcp_sell_signal]

InitPair ==
    /\ IdlePure
    /\ kind = "pair"
    /\ p = PlusConfig
    /\ bars \in [Instances -> [symbol : Symbols, delivered : {<<>>}]]
    /\ vcp_bought = [i \in Instances |-> FALSE]
    /\ lines = [i \in Instances |-> PlusResetLines]
    /\ last_record = [i \in Instances |-> "none"]
    /\ score = [i \in Instances |-> <<>>]

\* instance i receives the next bar of its feed and runs next on it
PairNext ==
    \E i \in Instances :
       /\ kind = "pair"
       /\ Len(own(bars, i).delivered) < MaxPlusBars
       /\ \E bs \in {Append(own(bars, i).delivered,
                            SymbolBar(own(bars, i).symbol, Len(own(bars, i).delivered) + 1))} :
          \E st \in {VCPPlusIndicator_next(own(vcp_bought, i), own(last_record, i), bs, p)} :
             /\ bars' = [bars EXCEPT ![i].delivered = bs]
             /\ vcp_bought' = [vcp_bought EXCEPT ![i] = st.bought]
             /\ lines' = [lines EXCEPT ![i] = st.lines]
             /\ last_record' = [last_record EXCEPT ![i] = st.record]
             /\ score' = [score EXCEPT ![i] = Append(score[i], emitted(st.lines))]
       /\ UNCHANGED <<kind, p, pure_vars>>

SpecPair == InitPair /\ [][PairNext]_vars

\* one more bar of a run of a single instance; prev is the run so far
alone_step(prev, st) ==
    [bought |-> st.bought, record |-> st.record, log |-> Append(prev.log, emitted(st.lines))]

alone_next(prev, bs, q) ==
    alone_step(prev, VCPPlusIndicator_next(prev.bought, prev.record, bs, q))

\* an instance run alone on the first n bars of the feed of a symbol
RECURSIVE run_alone(_, _, _)
run_alone(symbol, n, q) ==
    IF n = 0 THEN [bought |-> FALSE, record |-> "none", log |-> <<>>]
    ELSE alone_next(run_alone(symbol, n - 1, q),
                    [k \in 1..n |-> SymbolBar(symbol, k)], q)

(***************************************************************************)
(* Further claims about the signal machine.                                *)
(***************************************************************************)
\* C27: for every progress_threshold, the loose 0.34 included, VCPIndicator
\* emits a Buy only on a bar whose Stage-2 trend template passes; with
\* progress_threshold >= 1.0 only on a bar where all six criteria hold.
C27_BuyNeedsStage2 ==
    kind = "VCP" /\ BuyEmitted =>
        /\ score # NoScore
        /\ score[1]
        /\ lines.stage2_pass = 1
        /\ p.progress_threshold >= 100 => AllTrue(score)

\* a Buy under the loose threshold on a bar that fails one of the criteria
C27_Witness ==
    /\ kind = "VCP"
    /\ BuyEmitted
    /\ p.progress_threshold = 34
    /\ score[1]
    /\ ~AllTrue(score)

\* C28: no single bar emits both a Buy and a Sell: on every bar at most one
\* of the buy-signal and sell-signal lines of the indicator is set.
C28_NoBuyAndSellOnOneBar ==
    ~(BuyEmitted /\ SellEmitted)

MaxPreferred == 3   \* longest preferred list handed to the router
MaxWrites == 1      \* cache files written before the fetch

\* the source names of _fetch_from_source, and one it does not know
Sources == {"yfinance", "akshare", "baostock", "other"}

Markets == {"US", "HK", "CN"}

\* the entry of settings.DATA_SOURCE_PRIORITY for the market (or its
\* DEFAULT entry); the setting is deployment configuration
PriorityLists == {<<>>, <<"yfinance">>, <<"yfinance", "akshare">>, <<"baostock", "akshare", "yfinance">>}

\* the preferred argument: None or a list of source names
NotGiven == [given |-> FALSE, list |-> <<>>]

PreferredLists == {NotGiven} \cup {[given |-> TRUE, list |-> l] : l \in SeqsUpTo(Sources, MaxPreferred)}

\* source_used when no source delivered
NoSource == "None"

\* pd.DataFrame()
EmptyFrame == [empty |-> TRUE, origin |-> "none"]

\* a frame with rows, fetched live from the source
LiveFrame(source) == [empty |-> FALSE, origin |-> source]

\* a frame with rows, read from the cache file of the source
CachedFrame(source) == [empty |-> FALSE, origin |-> "cache"]

\* `if override:` (data_source_router.py 27): None and the empty list are falsy
is_truthy(override) == override.given /\ override.list # <<>>

priority_ignoring_override(configured, override) == configured

\* get_data_source_priority (data_source_router.py 23-30)
get_data_source_priority(configured, override) == IF is_truthy(override) THEN override.list ELSE configured

\* what a live manager call can return: a frame with rows, an empty frame,
\* or no frame at all
live_results(source) == {LiveFrame(source), EmptyFrame, NoValue}

\* _fetch_from_source (data_source_router.py 66-88): the frames the call can
\* return for the source and the market
fetch_from_source(source, market) ==
    IF source = "yfinance" THEN live_results(source)
    ELSE IF source = "akshare"
         THEN IF market \in {"HK", "US"} THEN live_results(source) ELSE {EmptyFrame}
    ELSE IF source = "baostock"
         THEN IF market = "CN" THEN live_results(source) ELSE {EmptyFrame}
    ELSE {EmptyFrame}

\* `isinstance(df, pd.DataFrame) and not df.empty` (data_source_router.py 49)
is_non_empty_frame(df) == df # NoValue /\ ~df.empty

\* write_cached_history (manager_common.py 136-166): the sources that have a
\* cache file for the request after the call
write_cached_history(df, source, cache) == IF df = NoValue \/ df.empty THEN cache ELSE cache \cup {source}

\* the return value of write_cached_history: the path, or None
written_path(df, source) == IF df = NoValue \/ df.empty THEN "None" ELSE source

\* read_cached_history (manager_common.py 104-133)
read_cached_history(source, cache) == IF source \in cache THEN CachedFrame(source) ELSE NoValue

InitRouter ==
    /\ task = "fetch_history_with_fallback"
    /\ fn_in \in [market : Markets, preferred : PreferredLists, configured : PriorityLists, cache : {{}}, cache_path : {"unset"}]
    /\ fn_out = NoValue
    /\ fn_pc = "call"
    /\ kind = "idle"
    /\ p = NoValue
    /\ bars = <<>>
    /\ vcp_bought = FALSE
    /\ lines = NoValue
    /\ last_record = "none"
    /\ score = NoValue

\* a caller stores a frame for the request before the fetch
\* (core/cli.py 51-59, test_data_source_router.py 57-75)
WriteCache ==
    /\ task = "fetch_history_with_fallback"
    /\ fn_pc = "call"
    /\ Cardinality(fn_in.cache) < MaxWrites
    /\ \E source \in Sources : \E df \in {EmptyFrame, LiveFrame(source)} :
          fn_in' = [fn_in EXCEPT !.cache = write_cached_history(df, source, @),
                                 !.cache_path = written_path(df, source)]
    /\ UNCHANGED <<task, fn_out, fn_pc, signal_vars>>

\* fetch_history_with_fallback up to the loop (data_source_router.py 46)
StartFetch ==
    /\ task = "fetch_history_with_fallback"
    /\ fn_pc = "call"
    /\ fn_out' = [order |-> get_data_source_priority(fn_in.configured, fn_in.preferred),
                  at |-> 1,
                  queried |-> <<>>,
                  df |-> NoValue,
                  source |-> NoSource]
    /\ fn_pc' = "loop"
    /\ UNCHANGED <<task, fn_in, signal_vars>>

\* one iteration of `for source in order` (data_source_router.py 47-62)
QuerySource ==
    /\ task = "fetch_history_with_fallback"
    /\ fn_pc = "loop"
    /\ fn_out.at <= Len(fn_out.order)
    /\ \E df \in fetch_from_source(fn_out.order[fn_out.at], fn_in.market) :
          LET source == fn_out.order[fn_out.at]
              asked == Append(fn_out.queried, [source |-> source, df |-> df])
          IN  IF is_non_empty_frame(df)
              THEN /\ fn_out' = [fn_out EXCEPT !.queried = asked, !.df = df, !.source = source]
                   /\ fn_pc' = "done"
              ELSE /\ fn_out' = [fn_out EXCEPT !.queried = asked, !.at = @ + 1]
                   /\ fn_pc' = "loop"
    /\ UNCHANGED <<task, fn_in, signal_vars>>

\* the return after the loop (data_source_router.py 63)
ReturnEmpty ==
    /\ task = "fetch_history_with_fallback"
    /\ fn_pc = "loop"
    /\ fn_out.at > Len(fn_out.order)
    /\ fn_out' = [fn_out EXCEPT !.df = EmptyFrame, !.source = NoSource]
    /\ fn_pc' = "done"
    /\ UNCHANGED <<task, fn_in, signal_vars>>

NextRouter == WriteCache \/ StartFetch \/ QuerySource \/ ReturnEmpty

SpecRouter == InitRouter /\ [][NextRouter]_vars

FetchDone == task = "fetch_history_with_fallback" /\ fn_pc = "done"

FetchRunning == task = "fetch_history_with_fallback" /\ fn_pc \in {"loop", "done"}

\* the queries made so far follow `order` from its start, every query but the
\* newest returned nothing, and the return value is the first frame with rows
\* (or the empty frame and no source after the whole list returned nothing)
follows_order(order) ==
    /\ fn_out.order = order
    /\ Len(fn_out.queried) <= Len(order)
    /\ \A k \in 1..Len(fn_out.queried) :
          /\ fn_out.queried[k].source = order[k]
          /\ k < Len(fn_out.queried) => ~is_non_empty_frame(fn_out.queried[k].df)
    /\ fn_pc = "loop" =>
          \A k \in 1..Len(fn_out.queried) : ~is_non_empty_frame(fn_out.queried[k].df)
    /\ (fn_pc = "done" /\ fn_out.source # NoSource) =>
          /\ fn_out.queried # <<>>
          /\ fn_out.queried[Len(fn_out.queried)] = [source |-> fn_out.source, df |-> fn_out.df]
          /\ is_non_empty_frame(fn_out.df)
          /\ fn_out.df = LiveFrame(fn_out.source)
    /\ (fn_pc = "done" /\ fn_out.source = NoSource) =>
          /\ Len(fn_out.queried) = Len(order)
          /\ \A k \in 1..Len(order) : ~is_non_empty_frame(fn_out.queried[k].df)
          /\ fn_out.df = EmptyFrame

\* C24 (as stated): fetch_history_with_fallback queries the sources in
\* priority order, the preferred list whenever one is given and else the
\* market's configured list, stops at the first source returning a non-empty
\* frame and returns that frame with that source's name; later sources are
\* never queried, and when every source returns empty it returns an empty
\* frame with source None.
C24_PreferredWheneverGiven ==
    FetchRunning =>
        follows_order(IF fn_in.preferred.given THEN fn_in.preferred.list ELSE fn_in.configured)

\* C24 (amended): fetch_history_with_fallback queries the sources in priority
\* order, the preferred list when it is given and not empty and else the
\* market's configured list, stops at the first source returning a non-empty
\* frame and returns that frame with that source's name; later sources are
\* never queried, and when every source returns empty it returns an empty
\* frame with source None.
C24_FallbackInPriorityOrder ==
    FetchRunning =>
        follows_order(IF fn_in.preferred.given /\ fn_in.preferred.list # <<>>
                      THEN fn_in.preferred.list ELSE fn_in.configured)

\* a preferred list of three sources: the first returned nothing, the second
\* delivered and the third was never queried
C24_Witness ==
    /\ FetchDone
    /\ fn_in.preferred.given
    /\ Len(fn_in.preferred.list) = 3
    /\ Len(fn_out.queried) = 2
    /\ ~is_non_empty_frame(fn_out.queried[1].df)
    /\ fn_out.source = fn_in.preferred.list[2]
    /\ fn_out.source # fn_in.preferred.list[1]
    /\ fn_out.df = LiveFrame(fn_out.source)

\* C25: after write_cached_history stored a non-empty frame for the request
\* under a source, a fetch_history_with_fallback for the same request with
\* that source preferred returns a non-empty frame with that source's name,
\* whatever the live sources return.
C25_CacheServesPreferredSource ==
    (/\ FetchDone
     /\ fn_in.preferred.given
     /\ Len(fn_in.preferred.list) = 1
     /\ read_cached_history(fn_in.preferred.list[1], fn_in.cache) # NoValue)
        => /\ fn_out.source = fn_in.preferred.list[1]
           /\ is_non_empty_frame(fn_out.df)

====
